---- MODULE Spec2Model ----
(***************************************************************************)
(* Family Voice Bridge: the two-turn conversation pipeline.                *)
(*                                                                         *)
(* The model covers the persistence store (conversation_sessions,          *)
(* conversation_turns), the three session endpoints (sessions/start,       *)
(* mom-turn, reply-turn) with their fire-and-forget background writes, the *)
(* tag endpoint, the background daily-summary trigger, the SessionRecorder *)
(* client that drives one conversation, and the summaries/generate         *)
(* endpoint.                                                               *)
(*                                                                         *)
(* Time is counted in half hours since 2024-12-02T00:00:00Z, so instant 9  *)
(* is 2024-12-02T04:30:00Z; a calendar date is a day number relative to    *)
(* 2024-12-02 (date -1 is 2024-12-01).                                     *)
(***************************************************************************)
EXTENDS Integers, Sequences, FiniteSets, TLC

VARIABLES
    now,              \* the database / server clock (NOW(), new Date())
    sessions,         \* table conversation_sessions: a set of rows
    turns,            \* table conversation_turns: a set of rows
    reqs,             \* turn submissions received so far, with their responses
    bg,               \* per submission: state of its background promise chain
    log,              \* console.error lines of the background paths
    summaryTriggers,  \* background fetches of /api/summaries/generate issued
    tagReqs,          \* requests to /api/sessions/[id]/tag, with their progress
    client,           \* the SessionRecorder component's state
    direct,           \* number of submissions made by callers other than the recorder
    summaries,        \* table daily_summaries: a set of rows
    phrases,          \* table daily_key_phrases: a set of rows
    genReqs,          \* requests to /api/summaries/generate handled so far
    llmCalls,         \* number of generateDailySummary calls made
    commits,          \* number of summary transactions committed
    reads,            \* requests to GET /api/summaries/[householdId]
    vocab,            \* the analyzeVocabulary call of GET /api/vocabulary/daily
    rate,             \* lib/rate-limit.ts: the limiter's store and its clock
    calc              \* a function of lib/ai-client.ts applied to an input

vars == <<now, sessions, turns, reqs, bg, log, summaryTriggers, tagReqs,
          client, direct, summaries, phrases, genReqs, llmCalls, commits, reads,
          vocab, rate, calc>>

pipelineVars == <<now, sessions, turns, reqs, bg, log, summaryTriggers,
                  tagReqs, client, direct>>

summaryVars == <<summaries, phrases, genReqs, llmCalls, commits, reads>>

otherVars == <<vocab, rate, calc>>

----------------------------------------------------------------------------
(* Bounds of the model *)

MaxSessions == 1     \* sessions the recorder starts
MaxDirect == 1       \* turn submissions by other callers of the API
MaxTicks == 1        \* clock advances
StartTime == 8       \* the run starts at 2024-12-02T04:00:00Z
MaxGenReqs == 2      \* summary generation requests
MaxReads == 1        \* summary read requests

----------------------------------------------------------------------------
(* Households and time zones *)

Households == {"H1", "H2"}

\* households.timezone
Timezone(h) == IF h = "H1" THEN "America/New_York" ELSE "Asia/Shanghai"

SlotsPerHour == 1 + 1
SlotsPerDay == 24 * SlotsPerHour

\* UTC offset of a zone in December, in half hours
UtcOffset(tz) ==
    CASE tz = "America/New_York" -> (0 - 5) * SlotsPerHour
      [] tz = "Asia/Shanghai" -> 8 * SlotsPerHour
      [] OTHER -> 0

\* DATE(ts AT TIME ZONE tz)
LocalDate(ts, tz) == (ts + UtcOffset(tz)) \div SlotsPerDay

\* new Date(ts).toISOString().split('T')[0]
IsoDate(ts) == ts \div SlotsPerDay

----------------------------------------------------------------------------
(* Text: a string is a sequence of characters *)

IsSpace(c) == c = " "

RECURSIVE TrimStart(_)
TrimStart(s) ==
    IF s = <<>> THEN <<>>
    ELSE IF IsSpace(Head(s)) THEN TrimStart(Tail(s))
    ELSE s

RECURSIVE TrimEnd(_)
TrimEnd(s) ==
    IF s = <<>> THEN <<>>
    ELSE IF IsSpace(s[Len(s)]) THEN TrimEnd(SubSeq(s, 1, Len(s) - 1))
    ELSE s

\* String.prototype.trim
Trim(s) == TrimEnd(TrimStart(s))

----------------------------------------------------------------------------
(* Services that are idle in a specification *)

\* no vocabulary request has been made
NoVocabulary == [pc |-> "none"]

\* no request has reached the rate limiter
NoTraffic == [pc |-> "none"]

\* no function is under study
NoCall == [pc |-> "none"]

----------------------------------------------------------------------------
(* External providers, seen through lib/ai-client.ts *)

\* What the transcription provider may answer: an HTTP failure (or timeout),
\* or a body whose text is absent, empty, blank, or speech with padding.
AsrResponses ==
    { [ok |-> FALSE, hasText |-> FALSE, text |-> <<>>],
      [ok |-> TRUE, hasText |-> FALSE, text |-> <<>>],
      [ok |-> TRUE, hasText |-> TRUE, text |-> <<>>],
      [ok |-> TRUE, hasText |-> TRUE, text |-> <<" ", " ">>],
      [ok |-> TRUE, hasText |-> TRUE, text |-> <<" ", "a">>] }

\* transcribeAudio: throws on a failed request, else returns the body
transcribeAudio(resp) ==
    IF resp.ok THEN [ok |-> TRUE, hasText |-> resp.hasText, text |-> resp.text]
    ELSE [ok |-> FALSE, hasText |-> FALSE, text |-> <<>>]

\* the transcript taken as returned, blanks included
SourceTextUntrimmed(transcription) ==
    IF transcription.hasText THEN transcription.text ELSE <<>>

\* transcription.text?.trim() || ''
SourceTextOf(transcription) ==
    IF transcription.hasText THEN Trim(transcription.text) ELSE <<>>

\* What the chat-completion provider may answer
ChatResponses ==
    { [ok |-> FALSE, content |-> <<>>, finish_reason |-> "stop"],
      [ok |-> TRUE, content |-> <<>>, finish_reason |-> "length"],
      [ok |-> TRUE, content |-> <<>>, finish_reason |-> "stop"],
      [ok |-> TRUE, content |-> <<"b">>, finish_reason |-> "stop"] }

\* a translation client that hands an empty completion back as the text
translateTextReturnsEmpty(text, sourceLang, targetLang, resp) ==
    IF ~resp.ok
    THEN [ok |-> FALSE, error |-> "Translation failed", translatedText |-> <<>>]
    ELSE [ok |-> TRUE, error |-> "", translatedText |-> resp.content]

\* translateText: the translated text, or the error it throws
translateText(text, sourceLang, targetLang, resp) ==
    IF ~({sourceLang, targetLang} = {"zh-CN", "en-US"} /\ sourceLang # targetLang)
    THEN [ok |-> FALSE, error |-> "Unsupported translation", translatedText |-> <<>>]
    ELSE IF ~resp.ok
    THEN [ok |-> FALSE, error |-> "Translation failed", translatedText |-> <<>>]
    ELSE IF resp.content = <<>>
    THEN IF resp.finish_reason = "length"
         THEN [ok |-> FALSE, error |-> "Translation was cut off due to token limit",
               translatedText |-> <<>>]
         ELSE [ok |-> FALSE, error |-> "Translation response did not contain text",
               translatedText |-> <<>>]
    ELSE [ok |-> TRUE, error |-> "", translatedText |-> resp.content]

----------------------------------------------------------------------------
(* The persistence store *)

Null == 0 - 1        \* SQL NULL in a timestamp column

SessionIds == 1 .. MaxSessions

SessionRow(sid) == CHOOSE s \in sessions : s.id = sid

SessionExists(sid) == \E s \in sessions : s.id = sid

\* conversation_sessions.id is a UUID: WHERE id = $1 with a parameter that
\* is no UUID fails with an error of the database. Session ids are counted
\* from 1; NotAUuid stands for a path segment such as "abc"
NotAUuid == 0 - 7
IsUuid(sid) == sid > 0
InvalidUuid == "invalid input syntax for type uuid"

TurnsOf(sid) == { t \in turns : t.session_id = sid }

TurnIndexesOf(sid) == { t.turn_index : t \in TurnsOf(sid) }

\* conversation_turns without its unique constraint
no_session_turn_constraint(table, row) == TRUE

\* CONSTRAINT uq_session_turn UNIQUE (session_id, turn_index)
uq_session_turn(table, row) ==
    \A t \in table :
        ~(t.session_id = row.session_id /\ t.turn_index = row.turn_index)

\* INSERT INTO conversation_turns: the table after the insert, or the
\* table as it was when the constraint rejects the row
InsertTurn(table, row) ==
    IF uq_session_turn(table, row) THEN table \cup {row} ELSE table

InsertTurnRejected(table, row) == ~uq_session_turn(table, row)

\* UPDATE conversation_sessions SET ended_at = NOW() WHERE id = sid
UpdateSessionEnded(table, sid, ts) ==
    { IF s.id = sid THEN [s EXCEPT !.ended_at = ts] ELSE s : s \in table }

\* an UPDATE of conversation_turns without its WHERE clause
UpdateEveryTurnsTag(table, sid, tag, ts) ==
    { [t EXCEPT !.situation_tag = tag, !.updated_at = ts] : t \in table }

\* UPDATE conversation_turns SET situation_tag = tag, updated_at = NOW()
\* WHERE session_id = sid
UpdateTurnsTag(table, sid, tag, ts) ==
    { IF t.session_id = sid
      THEN [t EXCEPT !.situation_tag = tag, !.updated_at = ts]
      ELSE t : t \in table }

----------------------------------------------------------------------------
(* The turn endpoints: POST /api/sessions/[sessionId]/mom-turn and          *)
(* POST /api/sessions/[sessionId]/reply-turn                                *)

TurnKinds == {"mom", "reply"}

SourceLang(kind) == IF kind = "mom" THEN "zh-CN" ELSE "en-US"
TargetLang(kind) == IF kind = "mom" THEN "en-US" ELSE "zh-CN"
SpeakerRole(kind) == IF kind = "mom" THEN "mom" ELSE "partner"
TurnIndex(kind) == IF kind = "mom" THEN 0 ELSE 1

NoFile == 0 - 1      \* formData.get('file') === null

Response(status, error, sourceText, translatedText, asrCalls, trCalls) ==
    [status |-> status, error |-> error, sourceText |-> sourceText,
     translatedText |-> translatedText, asrCalls |-> asrCalls, trCalls |-> trCalls]

\* if (!sourceText || sourceText.length === 0)
IsEmptyTranscript(sourceText) == Len(sourceText) = 0

\* a handler that asks a failing provider a second time before it answers
HandleTurnRetrying(kind, sid, limited, audio, asrResp, chatResp) ==
    IF limited
    THEN Response(429, "Rate limit exceeded", <<>>, <<>>, 0, 0)
    ELSE IF ~IsUuid(sid)
    THEN Response(500, InvalidUuid, <<>>, <<>>, 0, 0)
    ELSE IF ~SessionExists(sid)
    THEN Response(404, "Session not found", <<>>, <<>>, 0, 0)
    ELSE IF audio = NoFile
    THEN Response(400, "Audio file is required", <<>>, <<>>, 0, 0)
    ELSE LET transcription == transcribeAudio(asrResp)
             sourceText == SourceTextOf(transcription)
             translation == translateText(sourceText, SourceLang(kind),
                                          TargetLang(kind), chatResp)
         IN  IF ~transcription.ok
             THEN Response(500, "Transcription failed", <<>>, <<>>, 2, 0)
             ELSE IF IsEmptyTranscript(sourceText)
             THEN Response(400, "No speech detected in audio. Please try speaking again.",
                           <<>>, <<>>, 1, 0)
             ELSE IF ~translation.ok
             THEN Response(500, translation.error, <<>>, <<>>, 1, 2)
             ELSE Response(200, "", sourceText, translation.translatedText, 1, 1)

\* The synchronous part of POST: everything up to the returned response.
\* limited: checkRateLimit answered 429; audio: the size of the 'file' part
\* of the form, or NoFile; 
\* asrResp, chatResp: what the providers answer if they are asked.
HandleTurn(kind, sid, limited, audio, asrResp, chatResp) ==
    IF limited
    THEN Response(429, "Rate limit exceeded", <<>>, <<>>, 0, 0)
    ELSE IF ~IsUuid(sid)
    THEN Response(500, InvalidUuid, <<>>, <<>>, 0, 0)
    ELSE IF ~SessionExists(sid)
    THEN Response(404, "Session not found", <<>>, <<>>, 0, 0)
    ELSE IF audio = NoFile
    THEN Response(400, "Audio file is required", <<>>, <<>>, 0, 0)
    ELSE LET transcription == transcribeAudio(asrResp)
             sourceText == SourceTextOf(transcription)
             translation == translateText(sourceText, SourceLang(kind),
                                          TargetLang(kind), chatResp)
         IN  IF ~transcription.ok
             THEN Response(500, "Transcription failed", <<>>, <<>>, 1, 0)
             ELSE IF IsEmptyTranscript(sourceText)
             THEN Response(400, "No speech detected in audio. Please try speaking again.",
                           <<>>, <<>>, 1, 0)
             ELSE IF ~translation.ok
             THEN Response(500, translation.error, <<>>, <<>>, 1, 1)
             ELSE Response(200, "", sourceText, translation.translatedText, 1, 1)

\* a handler that starts its writes whatever it answers
BackgroundAlways(kind, resp) ==
    IF kind = "mom"
    THEN [insert |-> "pending", update |-> "none", chain |-> "none"]
    ELSE [insert |-> "pending", update |-> "pending", chain |-> "wait"]

\* The writes the handler starts before it returns: the turn insert and,
\* for the reply turn, the session update, joined by Promise.all
BackgroundOf(kind, resp) ==
    IF resp.status # 200
    THEN [insert |-> "none", update |-> "none", chain |-> "none"]
    ELSE IF kind = "mom"
    THEN [insert |-> "pending", update |-> "none", chain |-> "none"]
    ELSE [insert |-> "pending", update |-> "pending", chain |-> "wait"]

NotAsked == [ok |-> FALSE, hasText |-> FALSE, text |-> <<"-">>]

ChatNotAsked == [ok |-> FALSE, content |-> <<"-">>, finish_reason |-> "none"]

\* A request as the server saw it: the audio it carried, what the
\* transcription provider and
\* the chat provider answered (if they were asked) and the response the
\* handler returned
Request(kind, sid, byClient, audio, asrResp, chatResp, resp) ==
    [kind |-> kind, sid |-> sid, byClient |-> byClient, audio |-> audio,
     asr |-> IF resp.asrCalls = 0 THEN NotAsked ELSE asrResp,
     chat |-> IF resp.trCalls = 0 THEN ChatNotAsked ELSE chatResp,
     resp |-> resp]

\* The server's handling of one submission
Submit(kind, sid, byClient, limited, audio, asrResp, chatResp) ==
    LET resp == HandleTurn(kind, sid, limited, audio, asrResp, chatResp)
    IN  /\ reqs' = Append(reqs, Request(kind, sid, byClient, audio, asrResp, chatResp, resp))
        /\ bg' = Append(bg, BackgroundOf(kind, resp))

\* SELECT id FROM users WHERE household_id = $1 AND family_role = ...
\* LIMIT 1: the households' users of scripts/setup-test-data.sql
SpeakerUserId(householdId, kind) == <<householdId, SpeakerRole(kind)>>

\* The row the background insert of request r writes: VALUES (..., NOW(), ...)
\* with the request ids the two providers returned for this submission
TurnRowOf(r) ==
    [id |-> r,
     session_id |-> reqs[r].sid,
     household_id |-> SessionRow(reqs[r].sid).household_id,
     speaker_user_id |-> SpeakerUserId(SessionRow(reqs[r].sid).household_id, reqs[r].kind),
     speaker_role |-> SpeakerRole(reqs[r].kind),
     turn_index |-> TurnIndex(reqs[r].kind),
     ended_at |-> now,
     source_lang |-> SourceLang(reqs[r].kind),
     target_lang |-> TargetLang(reqs[r].kind),
     source_text |-> reqs[r].resp.sourceText,
     translated_text |-> reqs[r].resp.translatedText,
     situation_tag |-> "null",
     asr_request_id |-> <<"asr", r>>,
     translation_request_id |-> <<"chat", r>>,
     created_at |-> now,
     updated_at |-> now]

SaveFailedLine(r) == [req |-> r, line |-> "Background DB save failed (non-critical)"]

\* a handler that reported the failed write to its caller
SurfaceSaveFailure(r) ==
    /\ log' = log \cup {SaveFailedLine(r)}
    /\ reqs' = [reqs EXCEPT ![r].resp.status = 500,
                            ![r].resp.error = "Background DB save failed"]

\* .catch of the background chain: the rejection is logged, nothing else
LogSaveFailure(r) ==
    /\ log' = log \cup {SaveFailedLine(r)}
    /\ UNCHANGED reqs

WriteFailed(status) == status \in {"failed", "rejected"}

\* The database executes the background INSERT of request r. dbError: the
\* statement fails for a reason of the store's own (connection, timeout).
DbInsertTurn(r, dbError) ==
    /\ bg[r].insert = "pending"
    /\ IF dbError \/ InsertTurnRejected(turns, TurnRowOf(r))
       THEN /\ bg' = [bg EXCEPT ![r].insert = IF dbError THEN "failed" ELSE "rejected",
                                ![r].chain = IF @ = "wait" THEN "rejected" ELSE @]
            /\ LogSaveFailure(r)
            /\ UNCHANGED turns
       ELSE /\ bg' = [bg EXCEPT ![r].insert = "ok"]
            /\ turns' = InsertTurn(turns, TurnRowOf(r))
            /\ UNCHANGED <<log, reqs>>
    /\ UNCHANGED <<now, sessions, summaryTriggers, tagReqs, client, direct>>
    /\ UNCHANGED summaryVars
    /\ UNCHANGED otherVars

\* The database executes the background UPDATE of the session of request r
DbUpdateSession(r, dbError) ==
    /\ bg[r].update = "pending"
    /\ IF dbError
       THEN /\ bg' = [bg EXCEPT ![r].update = "failed",
                                ![r].chain = IF @ = "wait" THEN "rejected" ELSE @]
            /\ LogSaveFailure(r)
            /\ UNCHANGED sessions
       ELSE /\ bg' = [bg EXCEPT ![r].update = "ok"]
            /\ sessions' = UpdateSessionEnded(sessions, reqs[r].sid, now)
            /\ UNCHANGED <<log, reqs>>
    /\ UNCHANGED <<now, turns, summaryTriggers, tagReqs, client, direct>>
    /\ UNCHANGED summaryVars
    /\ UNCHANGED otherVars

\* body of the background fetch of /api/summaries/generate
SummaryTrigger(r) ==
    [req |-> r,
     sid |-> reqs[r].sid,
     householdId |-> SessionRow(reqs[r].sid).household_id,
     summaryDate |-> IsoDate(now),
     at |-> now,
     present |-> TurnIndexesOf(reqs[r].sid)]

\* .then of Promise.all([insert, update]): look the household up and fetch
\* /api/summaries/generate for today. lookupOk: the household query succeeds.
TriggerSummary(r, lookupOk) ==
    /\ bg[r].chain = "wait"
    /\ bg[r].insert = "ok"
    /\ bg[r].update = "ok"
    /\ bg' = [bg EXCEPT ![r].chain = "done"]
    /\ IF lookupOk
       THEN /\ summaryTriggers' = summaryTriggers \cup {SummaryTrigger(r)}
            /\ UNCHANGED log
       ELSE /\ log' = log \cup
                {[req |-> r, line |-> "Failed to fetch household for summary generation (non-critical)"]}
            /\ UNCHANGED summaryTriggers
    /\ UNCHANGED <<now, sessions, turns, reqs, tagReqs, client, direct>>
    /\ UNCHANGED summaryVars
    /\ UNCHANGED otherVars

----------------------------------------------------------------------------
(* POST /api/sessions/start *)

\* INSERT INTO conversation_sessions (household_id, initiated_by_user_id,
\* started_at) VALUES ($1, $2, NOW()) RETURNING id
NewSessionRow(householdId) ==
    [id |-> Cardinality(sessions) + 1, household_id |-> householdId,
     started_at |-> now, ended_at |-> Null]

StartOutcomes == {"ok", "limited", "dbError"}

\* status of the response of sessions/start
StartStatus(outcome) ==
    CASE outcome = "limited" -> 429
      [] outcome = "dbError" -> 500
      [] OTHER -> 200

----------------------------------------------------------------------------
(* POST /api/sessions/[sessionId]/tag *)

TagRequest(sid) ==
    [sid |-> sid, pc |-> "received", status |-> 0, read |-> {}, written |-> {}]

\* First half of the handler: rate limit, session lookup, "Fetch both turns"
TagRead(i, limited) ==
    /\ tagReqs[i].pc = "received"
    /\ LET q == tagReqs[i]
       IN  tagReqs' =
             [tagReqs EXCEPT ![i] =
                IF limited THEN [q EXCEPT !.pc = "done", !.status = 429]
                ELSE IF ~SessionExists(q.sid) THEN [q EXCEPT !.pc = "done", !.status = 404]
                ELSE IF TurnsOf(q.sid) = {} THEN [q EXCEPT !.pc = "done", !.status = 404]
                ELSE [q EXCEPT !.pc = "tagging", !.read = TurnIndexesOf(q.sid)]]
    /\ UNCHANGED <<now, sessions, turns, reqs, bg, log, summaryTriggers, client, direct>>
    /\ UNCHANGED summaryVars
    /\ UNCHANGED otherVars

\* Second half: tagConversation answers, then "Update all turns"
TagWrite(i, aiOk, tag) ==
    /\ tagReqs[i].pc = "tagging"
    /\ IF aiOk
       THEN /\ turns' = UpdateTurnsTag(turns, tagReqs[i].sid, tag, now)
            /\ tagReqs' = [tagReqs EXCEPT ![i].pc = "done", ![i].status = 200,
                                          ![i].written = TurnIndexesOf(tagReqs[i].sid)]
       ELSE /\ tagReqs' = [tagReqs EXCEPT ![i].pc = "done", ![i].status = 500]
            /\ UNCHANGED turns
    /\ UNCHANGED <<now, sessions, reqs, bg, log, summaryTriggers, client, direct>>
    /\ UNCHANGED summaryVars
    /\ UNCHANGED otherVars

----------------------------------------------------------------------------
(* components/SessionRecorder.tsx *)

SessionStates ==
    {"idle", "recording-mom", "processing-mom", "playing-english",
     "recording-partner", "processing-partner", "playing-chinese", "completed"}

NoSession == 0       \* sessionId === null

\* the householdId prop of the component (app/page.tsx)
ClientHousehold == "H1"

AutoStopSeconds == 10

TimerOff == 0 - 1    \* countdownRef.current === null

\* recorderRef.current: which recording the MediaRecorder was made for,
\* its state, and whether the tracks of its stream are live
NoRecorder == [kind |-> "none", state |-> "inactive", open |-> FALSE]

NewRecorder(kind) == [kind |-> kind, state |-> "recording", open |-> TRUE]

\* recorder.stop()
StopRecorder(rec) == [rec EXCEPT !.state = "inactive"]

\* cleanupRecorder(recorder): stop it and stop the tracks of its stream
cleanupRecorder(rec) == [rec EXCEPT !.state = "inactive", !.open = FALSE]

\* The component after mount. state, error, sessionId: its React state;
\* ref: recorderRef.current; timer: seconds left on the auto-stop timeout;
\* starting: startSession calls that have not returned; chain: where the
\* running handleMomRecording / stopPartnerRecording call stands; chainSid,
\* momSid: the sessionId in the closure of that call and of the last
\* handleMomRecording call; blob: the size of the audioBlob of the running
\* call; join: the two promises of Promise.all;
\* lost: recorders nothing refers to any more whose stream is live, by
\* what they are doing; failed: the sessions a failure was reported for;
\* stale: the timer's call has set the state and React has not rendered it
\* yet, so the reply's "Stop Recording" button is still on the screen (it
\* is rendered when reply-turn answers that call, if not before);
\* again, againSid: where a stopPartnerRecording call stands that was
\* started from that button while the timer's call was running.
IdleRecorder ==
    [state |-> "idle", sessionId |-> NoSession, error |-> "",
     householdId |-> ClientHousehold, started |-> 0, starting |-> 0,
     chain |-> "none", chainSid |-> NoSession, momSid |-> NoSession,
     blob |-> 0, ref |-> NoRecorder, timer |-> TimerOff,
     join |-> [rec |-> "none", tts |-> "none", first |-> "none"],
     lost |-> [mom |-> 0, partner |-> 0, unstarted |-> 0],
     stoppedBy |-> "none", failed |-> {},
     stale |-> FALSE, again |-> "none", againSid |-> NoSession]

\* recorderRef.current = recorder: a recorder that is dropped while its
\* stream is live stays as it is, out of reach
LostAfterReplacing(c) ==
    IF ~c.ref.open THEN c.lost
    ELSE IF c.ref.state = "recording"
    THEN [c.lost EXCEPT ![c.ref.kind] = @ + 1]
    ELSE [c.lost EXCEPT !.unstarted = @ + 1]

\* click on "Speak Chinese": startSession up to its fetch of sessions/start
clickStart ==
    /\ client.state = "idle"
    /\ client' = [client EXCEPT !.error = "", !.starting = @ + 1, !.started = @ + 1]
    /\ UNCHANGED <<now, sessions, turns, reqs, bg, log, summaryTriggers, tagReqs, direct>>
    /\ UNCHANGED summaryVars
    /\ UNCHANGED otherVars

\* startSession from the response of sessions/start on: setSessionId,
\* createAudioRecorder, recorder.start(), setState('recording-mom')
startSession(outcome, micOk) ==
    /\ client.starting > 0
    /\ IF StartStatus(outcome) # 200
       THEN /\ client' = [client EXCEPT !.error = "Failed to start session",
                                        !.starting = @ - 1]
            /\ UNCHANGED sessions
       ELSE /\ sessions' = sessions \cup {NewSessionRow(client.householdId)}
            /\ client' =
                 IF micOk
                 THEN [client EXCEPT !.sessionId = NewSessionRow(client.householdId).id,
                                     !.ref = NewRecorder("mom"),
                                     !.lost = LostAfterReplacing(client),
                                     !.state = "recording-mom",
                                     !.starting = @ - 1]
                 ELSE [client EXCEPT !.sessionId = NewSessionRow(client.householdId).id,
                                     !.error = "Failed to access microphone",
                                     !.failed = @ \cup {NewSessionRow(client.householdId).id},
                                     !.starting = @ - 1]
    /\ UNCHANGED <<now, turns, reqs, bg, log, summaryTriggers, tagReqs, direct>>
    /\ UNCHANGED summaryVars
    /\ UNCHANGED otherVars

\* click on "Stop Recording" of the first turn: handleMomRecording up to
\* its first await. setState, and recorder.stop() if the recorder is
\* recording; if it is not, the blob (of size audio) is made of the chunks
\* there are and the call goes on to cleanupRecorder without a pause.
handleMomRecording(audio) ==
    /\ client.state = "recording-mom"
    /\ client.chain = "none"
    /\ client.ref.kind # "none"
    /\ client.sessionId # NoSession
    /\ client' =
         IF client.ref.state = "recording"
         THEN [client EXCEPT !.state = "processing-mom",
                             !.chain = "mom-stop",
                             !.chainSid = client.sessionId,
                             !.momSid = client.sessionId,
                             !.ref = StopRecorder(@)]
         ELSE [client EXCEPT !.state = "processing-mom",
                             !.chain = "mom-upload",
                             !.chainSid = client.sessionId,
                             !.momSid = client.sessionId,
                             !.blob = audio,
                             !.ref = cleanupRecorder(@)]
    /\ UNCHANGED <<now, sessions, turns, reqs, bg, log, summaryTriggers, tagReqs, direct>>
    /\ UNCHANGED summaryVars
    /\ UNCHANGED otherVars

\* catch (err): setError, setState('idle')
FailChain(c, message) ==
    [c EXCEPT !.state = "idle", !.error = message, !.chain = "none",
              !.failed = @ \cup {c.chainSid}]

\* recorder.onstop / recorder.onerror of a stopped recording: the blob of
\* size audio is made, cleanupRecorder(recorderRef.current), and the blob is
\* posted; an error goes to the catch of the call
onRecorderStop(c, recOk, audio, uploading) ==
    IF ~recOk
    THEN FailChain(c, "Recording error occurred")
    ELSE [c EXCEPT !.ref = cleanupRecorder(@), !.blob = audio, !.chain = uploading]

\* handleMomRecording: the first-turn recorder has stopped
onMomRecorderStop(recOk, audio) ==
    /\ client.chain = "mom-stop"
    /\ client' = onRecorderStop(client, recOk, audio, "mom-upload")
    /\ UNCHANGED <<now, sessions, turns, reqs, bg, log, summaryTriggers, tagReqs, direct>>
    /\ UNCHANGED summaryVars
    /\ UNCHANGED otherVars

\* handleMomRecording: mom-turn answers the posted blob; on success
\* createAudioRecorder and speakText are started
uploadMomTurn(limited, asrResp, chatResp) ==
    /\ client.chain = "mom-upload"
    /\ LET resp == HandleTurn("mom", client.chainSid, limited, client.blob,
                              asrResp, chatResp)
       IN  /\ Submit("mom", client.chainSid, TRUE, limited, client.blob, asrResp, chatResp)
           /\ client' = IF resp.status = 200
                        THEN [client EXCEPT !.state = "playing-english",
                                            !.chain = "join",
                                            !.join = [rec |-> "pending",
                                                      tts |-> "pending",
                                                      first |-> "none"]]
                        ELSE FailChain(client, resp.error)
    /\ UNCHANGED <<now, sessions, turns, log, summaryTriggers, tagReqs, direct>>
    /\ UNCHANGED summaryVars
    /\ UNCHANGED otherVars

\* a recorder that starts the reply recording when playback has ended,
\* whether or not the reply recorder is ready
BothSettledPlaybackOnly(j) == j.tts = "done"

\* Promise.all([partnerRecorderPromise, speakText(...)]) has resolved
BothSettled(j) == j.rec = "ready" /\ j.tts = "done"

\* after the join: recorderRef.current = partnerRecorder,
\* partnerRecorder.start(), setState('recording-partner'), the auto-stop
\* timeout and the countdown are set
startPartnerRecording(c) ==
    [c EXCEPT !.ref = NewRecorder("partner"),
              !.lost = LostAfterReplacing(c),
              !.state = "recording-partner",
              !.chain = "none",
              !.timer = AutoStopSeconds]

\* one of the two promises has settled as j says: the continuation of
\* Promise.all runs when both have resolved, its catch at the first
\* rejection; a recorder that arrives after the rejection is dropped
SettleJoin(c, j, message) ==
    IF c.chain # "join"
    THEN [c EXCEPT !.join = j,
                   !.lost = IF j.rec = "ready" /\ c.join.rec = "pending"
                            THEN [@ EXCEPT !.unstarted = @ + 1] ELSE @]
    ELSE IF "failed" \in {j.rec, j.tts}
    THEN [FailChain(c, message) EXCEPT
              !.join = j,
              !.lost = IF j.rec = "ready"
                       THEN [@ EXCEPT !.unstarted = @ + 1] ELSE @]
    ELSE IF BothSettled(j)
    THEN startPartnerRecording([c EXCEPT !.join = j])
    ELSE [c EXCEPT !.join = j]

\* createAudioRecorder() for the reply settles
recorderReady(micOk) ==
    /\ client.join.rec = "pending"
    /\ client' = SettleJoin(client,
                    [client.join EXCEPT !.rec = IF micOk THEN "ready" ELSE "failed",
                                        !.first = IF @ = "none" THEN "rec" ELSE @],
                    "Failed to access microphone")
    /\ UNCHANGED <<now, sessions, turns, reqs, bg, log, summaryTriggers, tagReqs, direct>>
    /\ UNCHANGED summaryVars
    /\ UNCHANGED otherVars

\* speakText(translatedText, en-US) settles
playbackDone(ttsOk) ==
    /\ client.join.tts = "pending"
    /\ client' = SettleJoin(client,
                    [client.join EXCEPT !.tts = IF ttsOk THEN "done" ELSE "failed",
                                        !.first = IF @ = "none" THEN "tts" ELSE @],
                    "Failed to process recording")
    /\ UNCHANGED <<now, sessions, turns, reqs, bg, log, summaryTriggers, tagReqs, direct>>
    /\ UNCHANGED summaryVars
    /\ UNCHANGED otherVars

\* stopPartnerRecording up to its first await, with sid the sessionId of
\* its closure: the timers are cleared, setState, and recorder.stop() if
\* the recorder is recording; if it is not, the blob (of size audio) is
\* made of the chunks there are and the call goes on to cleanupRecorder
StopPartner(c, sid, by, audio) ==
    IF c.ref.state = "recording"
    THEN [c EXCEPT !.timer = TimerOff,
                   !.state = "processing-partner",
                   !.chain = "reply-stop",
                   !.chainSid = sid,
                   !.ref = StopRecorder(@),
                   !.stoppedBy = by]
    ELSE [c EXCEPT !.timer = TimerOff,
                   !.state = "processing-partner",
                   !.chain = "reply-upload",
                   !.chainSid = sid,
                   !.blob = audio,
                   !.ref = cleanupRecorder(@),
                   !.stoppedBy = by]

\* a recorder that fires the tag request as soon as the reply recording stops
stopPartnerRecordingTagFirst(audio) ==
    /\ client.state = "recording-partner"
    /\ client.chain = "none"
    /\ client.ref.kind # "none"
    /\ client.sessionId # NoSession
    /\ client' = StopPartner(client, client.sessionId, "manual", audio)
    /\ tagReqs' = Append(tagReqs, TagRequest(client.sessionId))
    /\ UNCHANGED <<now, sessions, turns, reqs, bg, log, summaryTriggers, direct>>
    /\ UNCHANGED summaryVars
    /\ UNCHANGED otherVars

\* click on "Stop Recording" of the reply: stopPartnerRecording
stopPartnerRecording(audio) ==
    /\ client.state = "recording-partner"
    /\ client.chain = "none"
    /\ client.ref.kind # "none"
    /\ client.sessionId # NoSession
    /\ client' = StopPartner(client, client.sessionId, "manual", audio)
    /\ UNCHANGED <<now, sessions, turns, reqs, bg, log, summaryTriggers, tagReqs, direct>>
    /\ UNCHANGED summaryVars
    /\ UNCHANGED otherVars

\* setInterval(..., 1000): a second of the countdown passes
Second ==
    /\ client.timer > 0
    /\ client' = [client EXCEPT !.timer = @ - 1]
    /\ UNCHANGED <<now, sessions, turns, reqs, bg, log, summaryTriggers, tagReqs, direct>>
    /\ UNCHANGED summaryVars
    /\ UNCHANGED otherVars

\* window.setTimeout(..., 10000) of handleMomRecording fires: the recorder
\* in recorderRef is stopped if it is recording, through the
\* stopPartnerRecording of that call's closure
autoStop ==
    /\ client.timer = 0
    /\ client' =
         IF client.ref.kind # "none" /\ client.ref.state = "recording"
            /\ client.momSid # NoSession
         THEN [StopPartner(client, client.momSid, "timer", 0) EXCEPT !.stale = TRUE]
         ELSE [client EXCEPT !.timer = TimerOff]
    /\ UNCHANGED <<now, sessions, turns, reqs, bg, log, summaryTriggers, tagReqs, direct>>
    /\ UNCHANGED summaryVars
    /\ UNCHANGED otherVars

\* React renders the state the timer's call has set: the button of the
\* 'recording-partner' view leaves the screen
render ==
    /\ client.stale
    /\ client' = [client EXCEPT !.stale = FALSE]
    /\ UNCHANGED <<now, sessions, turns, reqs, bg, log, summaryTriggers, tagReqs, direct>>
    /\ UNCHANGED summaryVars
    /\ UNCHANGED otherVars

\* click on the "Stop Recording" button that is still shown after the
\* timer's call: stopPartnerRecording runs again, with nothing but
\* recorderRef.current and sessionId to stop it. It replaces
\* recorder.onstop, finds the recorder stopped and makes its blob of the
\* chunks there are. If the timer's call was still waiting for onstop it
\* waits for ever and this call takes its place; if it had gone on, it has
\* emptied the chunks and the two calls run side by side.
stopPartnerRecordingAgain(audio) ==
    /\ client.stale
    /\ client.ref.kind # "none"
    /\ client.ref.state = "inactive"
    /\ client.sessionId # NoSession
    /\ client.chain \in {"reply-stop", "reply-upload"}
    /\ client.again = "none"
    /\ client' =
         IF client.chain = "reply-stop"
         THEN [StopPartner(client, client.sessionId, "manual", audio)
                  EXCEPT !.stale = FALSE]
         ELSE [client EXCEPT !.stale = FALSE,
                             !.timer = TimerOff,
                             !.state = "processing-partner",
                             !.again = "reply-upload",
                             !.againSid = client.sessionId,
                             !.ref = cleanupRecorder(@)]
    /\ UNCHANGED <<now, sessions, turns, reqs, bg, log, summaryTriggers, tagReqs, direct>>
    /\ UNCHANGED summaryVars
    /\ UNCHANGED otherVars

\* catch (err) of the call that runs beside the timer's call
FailAgain(c, message) ==
    [c EXCEPT !.state = "idle", !.error = message, !.again = "none",
              !.failed = @ \cup {c.againSid}]

\* the call beside the timer's call: reply-turn answers its empty blob
uploadReplyTurnAgain(limited, asrResp, chatResp) ==
    /\ client.again = "reply-upload"
    /\ LET resp == HandleTurn("reply", client.againSid, limited, 0, asrResp, chatResp)
       IN  /\ Submit("reply", client.againSid, TRUE, limited, 0, asrResp, chatResp)
           /\ client' = IF resp.status = 200
                        THEN [client EXCEPT !.state = "playing-chinese",
                                            !.again = "play-zh"]
                        ELSE FailAgain(client, resp.error)
    /\ UNCHANGED <<now, sessions, turns, log, summaryTriggers, tagReqs, direct>>
    /\ UNCHANGED summaryVars
    /\ UNCHANGED otherVars

\* the call beside the timer's call: speakText settles, the tag request
\* is fired and the session completes
finishSessionAgain(ttsOk) ==
    /\ client.again = "play-zh"
    /\ IF ttsOk
       THEN /\ tagReqs' = Append(tagReqs, TagRequest(client.againSid))
            /\ client' = [client EXCEPT !.state = "completed", !.again = "none"]
       ELSE /\ client' = FailAgain(client, "Failed to process partner recording")
            /\ UNCHANGED tagReqs
    /\ UNCHANGED <<now, sessions, turns, reqs, bg, log, summaryTriggers, direct>>
    /\ UNCHANGED summaryVars
    /\ UNCHANGED otherVars

\* stopPartnerRecording: the reply recorder has stopped
onPartnerRecorderStop(recOk, audio) ==
    /\ client.chain = "reply-stop"
    /\ client' = onRecorderStop(client, recOk, audio, "reply-upload")
    /\ UNCHANGED <<now, sessions, turns, reqs, bg, log, summaryTriggers, tagReqs, direct>>
    /\ UNCHANGED summaryVars
    /\ UNCHANGED otherVars

\* stopPartnerRecording: reply-turn answers the posted blob
uploadReplyTurn(limited, asrResp, chatResp) ==
    /\ client.chain = "reply-upload"
    /\ LET resp == HandleTurn("reply", client.chainSid, limited, client.blob,
                              asrResp, chatResp)
       IN  /\ Submit("reply", client.chainSid, TRUE, limited, client.blob, asrResp, chatResp)
           /\ client' = IF resp.status = 200
                        THEN [client EXCEPT !.state = "playing-chinese",
                                            !.chain = "play-zh",
                                            !.stale = FALSE]
                        ELSE [FailChain(client, resp.error) EXCEPT !.stale = FALSE]
    /\ UNCHANGED <<now, sessions, turns, log, summaryTriggers, tagReqs, direct>>
    /\ UNCHANGED summaryVars
    /\ UNCHANGED otherVars

\* stopPartnerRecording: speakText settles, the tag request is fired and
\* the session completes
finishSession(ttsOk) ==
    /\ client.chain = "play-zh"
    /\ IF ttsOk
       THEN /\ tagReqs' = Append(tagReqs, TagRequest(client.chainSid))
            /\ client' = [client EXCEPT !.state = "completed", !.chain = "none"]
       ELSE /\ client' = FailChain(client, "Failed to process partner recording")
            /\ UNCHANGED tagReqs
    /\ UNCHANGED <<now, sessions, turns, reqs, bg, log, summaryTriggers, direct>>
    /\ UNCHANGED summaryVars
    /\ UNCHANGED otherVars

\* click on "Start New Session": reset
reset ==
    /\ client.state = "completed"
    /\ client' = [client EXCEPT !.state = "idle", !.sessionId = NoSession,
                                !.error = "", !.timer = TimerOff,
                                !.ref = NoRecorder]
    /\ UNCHANGED <<now, sessions, turns, reqs, bg, log, summaryTriggers, tagReqs, direct>>
    /\ UNCHANGED summaryVars
    /\ UNCHANGED otherVars

----------------------------------------------------------------------------
(* Other callers of the turn API, and the clock *)

\* Any caller may post a turn for any session id, any number of times
DirectSubmit(kind, sid, limited, audio, asrResp, chatResp) ==
    /\ direct < MaxDirect
    /\ direct' = direct + 1
    /\ Submit(kind, sid, FALSE, limited, audio, asrResp, chatResp)
    /\ UNCHANGED <<now, sessions, turns, log, summaryTriggers, tagReqs, client>>
    /\ UNCHANGED summaryVars
    /\ UNCHANGED otherVars

\* The provider answers drawn for those callers: speech that translates
DirectAsrResponses == { a \in AsrResponses : a.ok /\ a.hasText /\ Trim(a.text) # <<>> }
DirectChatResponses == { c \in ChatResponses : c.ok /\ c.content # <<>> }

Tick ==
    /\ now < StartTime + MaxTicks
    /\ now' = now + 1
    /\ UNCHANGED <<sessions, turns, reqs, bg, log, summaryTriggers, tagReqs, client, direct>>
    /\ UNCHANGED summaryVars
    /\ UNCHANGED otherVars

----------------------------------------------------------------------------
(* The pipeline specification *)

Init ==
    /\ now = StartTime
    /\ sessions = {}
    /\ turns = {}
    /\ reqs = <<>>
    /\ bg = <<>>
    /\ log = {}
    /\ summaryTriggers = {}
    /\ tagReqs = <<>>
    /\ client = IdleRecorder
    /\ direct = 0
    /\ summaries = {}
    /\ phrases = {}
    /\ genReqs = <<>>
    /\ llmCalls = 0
    /\ commits = 0
    /\ reads = <<>>
    /\ vocab = NoVocabulary
    /\ rate = NoTraffic
    /\ calc = NoCall

\* The recorder is used one gesture at a time and the reply is stopped by
\* hand; its recordings hold audio
Next ==
    \/ (client.started < MaxSessions /\ client.starting = 0 /\ clickStart)
    \/ \E o \in StartOutcomes, micOk \in BOOLEAN : startSession(o, micOk)
    \/ handleMomRecording(1)
    \/ \E recOk \in BOOLEAN : onMomRecorderStop(recOk, 1)
    \/ \E limited \in BOOLEAN, a \in AsrResponses, c \in ChatResponses :
         uploadMomTurn(limited, a, c)
    \/ \E micOk \in BOOLEAN : recorderReady(micOk)
    \/ \E ttsOk \in BOOLEAN : playbackDone(ttsOk)
    \/ stopPartnerRecording(1)
    \/ \E recOk \in BOOLEAN : onPartnerRecorderStop(recOk, 1)
    \/ \E limited \in BOOLEAN, a \in AsrResponses, c \in ChatResponses :
         uploadReplyTurn(limited, a, c)
    \/ \E ttsOk \in BOOLEAN : finishSession(ttsOk)
    \/ reset
    \/ \E k \in TurnKinds, sid \in SessionIds \cup {NotAUuid}, audio \in {NoFile, 1},
          a \in DirectAsrResponses, c \in DirectChatResponses :
         DirectSubmit(k, sid, FALSE, audio, a, c)
    \/ \E r \in DOMAIN bg, dbError \in BOOLEAN : DbInsertTurn(r, dbError)
    \/ \E r \in DOMAIN bg, dbError \in BOOLEAN : DbUpdateSession(r, dbError)
    \/ \E r \in DOMAIN bg, lookupOk \in BOOLEAN : TriggerSummary(r, lookupOk)
    \/ \E i \in DOMAIN tagReqs, limited \in BOOLEAN : TagRead(i, limited)
    \/ \E i \in DOMAIN tagReqs, aiOk \in BOOLEAN : TagWrite(i, aiOk, "kitchen")
    \/ Tick

Spec == Init /\ [][Next]_vars

----------------------------------------------------------------------------
(* The recorder on its own: any button that is shown may be pressed, the   *)
(* countdown runs, and a recording may hold no audio                        *)

MaxClicks == 2       \* presses of "Speak Chinese"

AudioSizes == 0 .. 1

NextClient ==
    \/ (client.started < MaxClicks /\ clickStart)
    \/ \E o \in StartOutcomes, micOk \in BOOLEAN : startSession(o, micOk)
    \/ \E audio \in AudioSizes : handleMomRecording(audio)
    \/ \E recOk \in BOOLEAN, audio \in AudioSizes : onMomRecorderStop(recOk, audio)
    \/ \E limited \in BOOLEAN, a \in AsrResponses, c \in ChatResponses :
         uploadMomTurn(limited, a, c)
    \/ \E micOk \in BOOLEAN : recorderReady(micOk)
    \/ \E ttsOk \in BOOLEAN : playbackDone(ttsOk)
    \/ \E audio \in AudioSizes : stopPartnerRecording(audio)
    \/ Second
    \/ autoStop
    \/ \E recOk \in BOOLEAN, audio \in AudioSizes : onPartnerRecorderStop(recOk, audio)
    \/ \E limited \in BOOLEAN, a \in AsrResponses, c \in ChatResponses :
         uploadReplyTurn(limited, a, c)
    \/ \E ttsOk \in BOOLEAN : finishSession(ttsOk)
    \/ reset

ClientSpec == Init /\ [][NextClient]_vars

----------------------------------------------------------------------------
(* The recorder through one session with the countdown running, when the   *)
(* state the timer's call sets is rendered in a later task: until then the *)
(* reply's "Stop Recording" button may be pressed. A call that runs beside *)
(* the timer's call is rate limited or gets speech that translates.        *)

MaxRaceClicks == 1   \* presses of "Speak Chinese"

NextRace ==
    \/ (client.started < MaxRaceClicks /\ clickStart)
    \/ \E o \in StartOutcomes, micOk \in BOOLEAN : startSession(o, micOk)
    \/ \E audio \in AudioSizes : handleMomRecording(audio)
    \/ \E recOk \in BOOLEAN, audio \in AudioSizes : onMomRecorderStop(recOk, audio)
    \/ \E limited \in BOOLEAN, a \in AsrResponses, c \in ChatResponses :
         uploadMomTurn(limited, a, c)
    \/ \E micOk \in BOOLEAN : recorderReady(micOk)
    \/ \E ttsOk \in BOOLEAN : playbackDone(ttsOk)
    \/ \E audio \in AudioSizes : stopPartnerRecording(audio)
    \/ Second
    \/ autoStop
    \/ render
    \/ \E audio \in AudioSizes : stopPartnerRecordingAgain(audio)
    \/ \E recOk \in BOOLEAN, audio \in AudioSizes : onPartnerRecorderStop(recOk, audio)
    \/ \E limited \in BOOLEAN, a \in AsrResponses, c \in ChatResponses :
         uploadReplyTurn(limited, a, c)
    \/ \E limited \in BOOLEAN, a \in DirectAsrResponses, c \in DirectChatResponses :
         uploadReplyTurnAgain(limited, a, c)
    \/ \E ttsOk \in BOOLEAN : finishSession(ttsOk)
    \/ \E ttsOk \in BOOLEAN : finishSessionAgain(ttsOk)
    \/ reset

RaceSpec == Init /\ [][NextRace]_vars

----------------------------------------------------------------------------
(* POST /api/summaries/generate *)

\* What the summary model may answer: a failed request, or a JSON summary
\* with its phrases array (phrase_en of each entry), which may name a
\* phrase twice
SummaryOutputs ==
    { [ok |-> FALSE, phrases |-> <<>>],
      [ok |-> TRUE, phrases |-> <<"a", "b", "c", "d">>],
      [ok |-> TRUE, phrases |-> <<"a", "b", "c", "d", "e">>],
      [ok |-> TRUE, phrases |-> <<"a", "b", "c", "d", "a">>],
      [ok |-> TRUE, phrases |-> <<"e", "f", "g", "h", "i">>],
      [ok |-> TRUE, phrases |-> <<"a", "b", "c", "d", "e", "f">>] }

PhrasesPerSummary == 5

\* a summary client that accepts a phrases array of any length
generateDailySummaryAnyLength(out) ==
    IF ~out.ok
    THEN [ok |-> FALSE, error |-> "Summary generation failed", phrases |-> <<>>]
    ELSE [ok |-> TRUE, error |-> "", phrases |-> out.phrases]

\* generateDailySummary: the parsed summary, or the error it throws
generateDailySummary(out) ==
    IF ~out.ok
    THEN [ok |-> FALSE, error |-> "Summary generation failed", phrases |-> <<>>]
    ELSE IF Len(out.phrases) # PhrasesPerSummary
    THEN [ok |-> FALSE, error |-> "Summary must contain exactly 5 phrases", phrases |-> <<>>]
    ELSE [ok |-> TRUE, error |-> "", phrases |-> out.phrases]

\* the turn query with the end timestamp read as a UTC date
SelectTurnsUtc(table, householdId, timezone, targetDate) ==
    { t \in table :
        t.household_id = householdId /\ IsoDate(t.ended_at) = targetDate }

\* SELECT ... FROM conversation_turns WHERE household_id = $1
\* AND DATE(ended_at AT TIME ZONE $2) = $3
SelectTurnsForDate(table, householdId, timezone, targetDate) ==
    { t \in table :
        t.household_id = householdId /\ LocalDate(t.ended_at, timezone) = targetDate }

\* a handler that summarises whatever the query returned
AlwaysHasTurns(selected) == FALSE

\* if (turns.length === 0)
NoTurnsFound(selected) == Cardinality(selected) = 0

NoDate == 0 - 99     \* summaryDate absent from the body

\* A request to summaries/generate and its progress. model: what the
\* summary model answered; phrases: the validated phrases; k: the loop
\* index of the phrase insert; txS, txP: the rows of its (household, date)
\* as its open transaction sees them; seq: its place in the commit order.
GenRequest(householdId, targetDate, pc, status, error, selected) ==
    [householdId |-> householdId, targetDate |-> targetDate, pc |-> pc,
     status |-> status, error |-> error, selected |-> selected, llm |-> 0,
     model |-> [ok |-> FALSE, phrases |-> <<>>], phrases |-> <<>>, k |-> 0,
     txS |-> {}, txP |-> {}, seq |-> 0]

\* The handler up to the model call: validation, household lookup, turn
\* query. The request is recorded with the turns it selected.
GenerateRead(householdId, summaryDate) ==
    /\ LET targetDate == IF summaryDate = NoDate THEN IsoDate(now) ELSE summaryDate
           selected == SelectTurnsForDate(turns, householdId, Timezone(householdId),
                                          targetDate)
       IN  genReqs' = Append(genReqs,
             IF householdId = ""
             THEN GenRequest(householdId, summaryDate, "done", 400,
                             "householdId is required", {})
             ELSE IF householdId \notin Households
             THEN GenRequest(householdId, targetDate, "done", 404,
                             "Household not found", {})
             ELSE IF NoTurnsFound(selected)
             THEN GenRequest(householdId, targetDate, "done", 404,
                             "No conversations found for the specified date", {})
             ELSE GenRequest(householdId, targetDate, "generating", 0, "",
                             { t.id : t \in selected }))
    /\ UNCHANGED <<summaries, phrases, llmCalls, commits, reads>>
    /\ UNCHANGED pipelineVars
    /\ UNCHANGED otherVars

\* await generateDailySummary(turnsForSummary): a thrown error is answered
\* by the catch block, else the handler goes on to the transaction
GenerateCall(i, out) ==
    /\ genReqs[i].pc = "generating"
    /\ llmCalls' = llmCalls + 1
    /\ LET q == genReqs[i]
           result == generateDailySummary(out)
       IN  genReqs' = [genReqs EXCEPT ![i] =
             IF ~result.ok
             THEN [q EXCEPT !.pc = "done", !.status = 500, !.error = result.error,
                            !.llm = 1, !.model = out]
             ELSE [q EXCEPT !.pc = "tx-upsert", !.llm = 1, !.model = out,
                            !.phrases = result.phrases]]
    /\ UNCHANGED <<summaries, phrases, commits, reads>>
    /\ UNCHANGED pipelineVars
    /\ UNCHANGED otherVars

SummaryKeyRows(table, householdId, date) ==
    { x \in table : x.household_id = householdId /\ x.summary_date = date }

\* INSERT INTO daily_summaries ... ON CONFLICT (household_id, summary_date)
\* DO UPDATE SET ...: the new contents stand for generation i
UpsertSummary(table, householdId, date, i) ==
    IF SummaryKeyRows(table, householdId, date) = {}
    THEN table \cup {[id |-> i, household_id |-> householdId,
                      summary_date |-> date, gen |-> i, generated_at |-> now]}
    ELSE { IF x.household_id = householdId /\ x.summary_date = date
           THEN [x EXCEPT !.gen = i, !.generated_at = now] ELSE x : x \in table }

SummaryIdOf(table, householdId, date) ==
    (CHOOSE x \in SummaryKeyRows(table, householdId, date) : TRUE).id

\* a regeneration that leaves the phrases of the date in place
KeepPhrases(table, householdId, date) == table

\* DELETE FROM daily_key_phrases WHERE household_id = $1 AND summary_date = $2
DeletePhrases(table, householdId, date) ==
    table \ SummaryKeyRows(table, householdId, date)

\* INSERT INTO daily_key_phrases ... ON CONFLICT (household_id, summary_date,
\* phrase_en) DO UPDATE SET phrase_rank = ..., ...
UpsertPhrase(table, householdId, summaryId, date, rank, phraseEn, i) ==
    IF \E x \in SummaryKeyRows(table, householdId, date) : x.phrase_en = phraseEn
    THEN { IF x.household_id = householdId /\ x.summary_date = date
              /\ x.phrase_en = phraseEn
           THEN [x EXCEPT !.phrase_rank = rank, !.gen = i] ELSE x : x \in table }
    ELSE table \cup {[household_id |-> householdId, summary_id |-> summaryId,
                      summary_date |-> date, phrase_rank |-> rank,
                      phrase_en |-> phraseEn, gen |-> i]}

----------------------------------------------------------------------------
(* lib/db.ts transaction(callback): BEGIN, the callback's statements on    *)
(* one connection, COMMIT; on any error ROLLBACK and rethrow. The rows a   *)
(* transaction has written are visible to it alone until it commits.       *)

\* the request has written the summary row of its key and holds its lock
InTransaction(q) == q.pc \in {"tx-delete", "tx-insert", "tx-commit"}

\* another transaction holds the row lock of the (household, date) of
\* request i: its INSERT ... ON CONFLICT waits for that one to finish
KeyLocked(i) ==
    \E j \in DOMAIN genReqs :
        /\ j # i
        /\ InTransaction(genReqs[j])
        /\ genReqs[j].householdId = genReqs[i].householdId
        /\ genReqs[j].targetDate = genReqs[i].targetDate

\* a commit that adds the rows the transaction wrote and leaves in place
\* the ones it deleted
CommitRowsKeepingDeleted(table, householdId, date, written) == table \cup written

\* COMMIT: the rows the transaction wrote for its key replace the
\* committed ones
CommitRows(table, householdId, date, written) ==
    (table \ SummaryKeyRows(table, householdId, date)) \cup written

\* a helper whose failed transaction keeps what its statements wrote
RollbackKeepsWrites(table, householdId, date, written) ==
    (table \ SummaryKeyRows(table, householdId, date)) \cup written

\* ROLLBACK: the committed rows stay as they were
Rollback(table, householdId, date, written) == table

\* catch of transaction(): ROLLBACK, rethrow; the handler answers 500
TxAbort(i) ==
    LET q == genReqs[i]
    IN  /\ genReqs' = [genReqs EXCEPT ![i] =
              [q EXCEPT !.pc = "done", !.status = 500, !.error = "transaction failed"]]
        /\ summaries' = Rollback(summaries, q.householdId, q.targetDate, q.txS)
        /\ phrases' = Rollback(phrases, q.householdId, q.targetDate, q.txP)
        /\ UNCHANGED commits

\* BEGIN and the first statement: upsert of the summary row. stmtOk: the
\* statement succeeds.
TxUpsertSummary(i, stmtOk) ==
    /\ genReqs[i].pc = "tx-upsert"
    /\ ~KeyLocked(i)
    /\ LET q == genReqs[i]
       IN  IF stmtOk
           THEN /\ genReqs' = [genReqs EXCEPT ![i] =
                      [q EXCEPT !.pc = "tx-delete",
                                !.txS = SummaryKeyRows(
                                    UpsertSummary(summaries, q.householdId,
                                                  q.targetDate, i),
                                    q.householdId, q.targetDate),
                                !.txP = SummaryKeyRows(phrases, q.householdId,
                                                       q.targetDate)]]
                /\ UNCHANGED <<summaries, phrases, commits>>
           ELSE /\ genReqs' = [genReqs EXCEPT ![i] =
                      [q EXCEPT !.pc = "done", !.status = 500,
                                !.error = "transaction failed"]]
                /\ UNCHANGED <<summaries, phrases, commits>>
    /\ UNCHANGED <<llmCalls, reads>>
    /\ UNCHANGED pipelineVars
    /\ UNCHANGED otherVars

\* second statement: delete the phrases of the date
TxDeletePhrases(i, stmtOk) ==
    /\ genReqs[i].pc = "tx-delete"
    /\ LET q == genReqs[i]
       IN  IF stmtOk
           THEN /\ genReqs' = [genReqs EXCEPT ![i] =
                      [q EXCEPT !.pc = "tx-insert", !.k = 1,
                                !.txP = DeletePhrases(q.txP, q.householdId,
                                                      q.targetDate)]]
                /\ UNCHANGED <<summaries, phrases, commits>>
           ELSE TxAbort(i)
    /\ UNCHANGED <<llmCalls, reads>>
    /\ UNCHANGED pipelineVars
    /\ UNCHANGED otherVars

\* for (let i = 0; i < phrases.length; i++): insert phrase i with rank i + 1
TxInsertPhrase(i, stmtOk) ==
    /\ genReqs[i].pc = "tx-insert"
    /\ LET q == genReqs[i]
       IN  IF stmtOk
           THEN /\ genReqs' = [genReqs EXCEPT ![i] =
                      [q EXCEPT !.pc = IF q.k + 1 > Len(q.phrases)
                                       THEN "tx-commit" ELSE "tx-insert",
                                !.k = q.k + 1,
                                !.txP = UpsertPhrase(q.txP, q.householdId,
                                          SummaryIdOf(q.txS, q.householdId, q.targetDate),
                                          q.targetDate, q.k, q.phrases[q.k], i)]]
                /\ UNCHANGED <<summaries, phrases, commits>>
           ELSE TxAbort(i)
    /\ UNCHANGED <<llmCalls, reads>>
    /\ UNCHANGED pipelineVars
    /\ UNCHANGED otherVars

\* COMMIT, then the 200 response
TxCommit(i, stmtOk) ==
    /\ genReqs[i].pc = "tx-commit"
    /\ LET q == genReqs[i]
       IN  IF stmtOk
           THEN /\ genReqs' = [genReqs EXCEPT ![i] =
                      [q EXCEPT !.pc = "done", !.status = 200, !.seq = commits + 1]]
                /\ commits' = commits + 1
                /\ summaries' = CommitRows(summaries, q.householdId, q.targetDate, q.txS)
                /\ phrases' = CommitRows(phrases, q.householdId, q.targetDate, q.txP)
           ELSE TxAbort(i)
    /\ UNCHANGED <<llmCalls, reads>>
    /\ UNCHANGED pipelineVars
    /\ UNCHANGED otherVars

----------------------------------------------------------------------------
(* GET /api/summaries/[householdId]?date= *)

ReadRequest(householdId, date, pc, status, summary) ==
    [householdId |-> householdId, date |-> date, pc |-> pc, status |-> status,
     summary |-> summary, phrases |-> {}]

NoSummary == 0       \* queryOne returned null

\* household lookup, then "Fetch daily summary"
ReadSummary(householdId, date) ==
    /\ Len(reads) < MaxReads
    /\ reads' = Append(reads,
         IF householdId \notin Households
         THEN ReadRequest(householdId, date, "done", 404, NoSummary)
         ELSE IF SummaryKeyRows(summaries, householdId, date) = {}
         THEN ReadRequest(householdId, date, "done", 404, NoSummary)
         ELSE ReadRequest(householdId, date, "phrases", 0,
                (CHOOSE x \in SummaryKeyRows(summaries, householdId, date) : TRUE).gen))
    /\ UNCHANGED <<summaries, phrases, genReqs, llmCalls, commits>>
    /\ UNCHANGED pipelineVars
    /\ UNCHANGED otherVars

\* "Fetch key phrases", then the response
ReadPhrases(r) ==
    /\ reads[r].pc = "phrases"
    /\ reads' = [reads EXCEPT ![r].pc = "done", ![r].status = 200,
                              ![r].phrases =
                                 { [phrase_en |-> x.phrase_en, phrase_rank |-> x.phrase_rank,
                                    gen |-> x.gen] :
                                   x \in SummaryKeyRows(phrases, reads[r].householdId,
                                                        reads[r].date) }]
    /\ UNCHANGED <<summaries, phrases, genReqs, llmCalls, commits>>
    /\ UNCHANGED pipelineVars
    /\ UNCHANGED otherVars

\* A row of conversation_turns as the pipeline leaves it
StoredTurn(id, sid, householdId, kind, endedAt) ==
    [id |-> id, session_id |-> sid, household_id |-> householdId,
     speaker_user_id |-> SpeakerUserId(householdId, kind),
     speaker_role |-> SpeakerRole(kind), turn_index |-> TurnIndex(kind),
     ended_at |-> endedAt, source_lang |-> SourceLang(kind),
     target_lang |-> TargetLang(kind), source_text |-> <<"a">>,
     translated_text |-> <<"b">>, situation_tag |-> "null",
     asr_request_id |-> <<"asr", id>>, translation_request_id |-> <<"chat", id>>,
     created_at |-> endedAt, updated_at |-> endedAt]

\* Turns of two households around midnight: 2024-12-02T04:30Z and 05:00Z
\* for the New York household (23:30 on 12-01 and 00:00 on 12-02 there),
\* 15:30Z and 16:00Z for the Shanghai household (23:30 and 00:00 there)
StoredTurns ==
    { StoredTurn(1, 1, "H1", "mom", 9),
      StoredTurn(2, 1, "H1", "reply", 10),
      StoredTurn(3, 2, "H2", "mom", 31),
      StoredTurn(4, 2, "H2", "reply", 32) }

StoredSessions ==
    { [id |-> 1, household_id |-> "H1", started_at |-> 9, ended_at |-> 10],
      [id |-> 2, household_id |-> "H2", started_at |-> 31, ended_at |-> 32] }

GenHouseholds == Households \cup {"H9", ""}

GenDates == {NoDate} \cup ((0 - 1) .. 1)

\* The store after some conversations, at 2024-12-02T16:00Z
InitSummary ==
    /\ now = 32
    /\ sessions = StoredSessions
    /\ turns \in SUBSET StoredTurns
    /\ reqs = <<>>
    /\ bg = <<>>
    /\ log = {}
    /\ summaryTriggers = {}
    /\ tagReqs = <<>>
    /\ client = IdleRecorder
    /\ direct = 0
    /\ summaries = {}
    /\ phrases = {}
    /\ genReqs = <<>>
    /\ llmCalls = 0
    /\ commits = 0
    /\ reads = <<>>
    /\ vocab = NoVocabulary
    /\ rate = NoTraffic
    /\ calc = NoCall

NextSummary ==
    \/ (Len(genReqs) < MaxGenReqs /\
          \E h \in GenHouseholds, d \in GenDates : GenerateRead(h, d))
    \/ \E i \in DOMAIN genReqs, out \in SummaryOutputs : GenerateCall(i, out)
    \/ \E i \in DOMAIN genReqs, stmtOk \in BOOLEAN : TxUpsertSummary(i, stmtOk)
    \/ \E i \in DOMAIN genReqs, stmtOk \in BOOLEAN : TxDeletePhrases(i, stmtOk)
    \/ \E i \in DOMAIN genReqs, stmtOk \in BOOLEAN : TxInsertPhrase(i, stmtOk)
    \/ \E i \in DOMAIN genReqs, stmtOk \in BOOLEAN : TxCommit(i, stmtOk)

SummarySpec == InitSummary /\ [][NextSummary]_vars

----------------------------------------------------------------------------
(* Regeneration: summaries of the New York household generated, generated *)
(* again and read while the transactions are open                          *)

RegenHouseholds == {"H1"}

RegenDates == (0 - 1) .. 0

InitRegen ==
    /\ InitSummary
    /\ turns = StoredTurns

NextRegen ==
    \/ (Len(genReqs) < MaxGenReqs /\
          \E h \in RegenHouseholds, d \in RegenDates : GenerateRead(h, d))
    \/ \E i \in DOMAIN genReqs, out \in SummaryOutputs : GenerateCall(i, out)
    \/ \E i \in DOMAIN genReqs, stmtOk \in BOOLEAN : TxUpsertSummary(i, stmtOk)
    \/ \E i \in DOMAIN genReqs, stmtOk \in BOOLEAN : TxDeletePhrases(i, stmtOk)
    \/ \E i \in DOMAIN genReqs, stmtOk \in BOOLEAN : TxInsertPhrase(i, stmtOk)
    \/ \E i \in DOMAIN genReqs, stmtOk \in BOOLEAN : TxCommit(i, stmtOk)
    \/ \E h \in RegenHouseholds, d \in RegenDates : ReadSummary(h, d)
    \/ \E r \in DOMAIN reads : ReadPhrases(r)

RegenSpec == InitRegen /\ [][NextRegen]_vars

----------------------------------------------------------------------------
(* Tagging: sessions of two households are tagged, by any caller and any   *)
(* number of times, while a late turn of one of them is still being saved  *)

MaxTagReqs == 2

\* the two stored sessions and an id no session has
TagSessionIds == 1 .. 3

\* situation_tag values the model answers with
SituationTags == {"kitchen", "baby"}

\* POST /api/sessions/[sessionId]/tag arrives
PostTag(sid) ==
    /\ Len(tagReqs) < MaxTagReqs
    /\ tagReqs' = Append(tagReqs, TagRequest(sid))
    /\ UNCHANGED <<now, sessions, turns, reqs, bg, log, summaryTriggers, client, direct>>
    /\ UNCHANGED summaryVars
    /\ UNCHANGED otherVars

\* Both turns of the first session and the first turn of the second are
\* stored; the reply of the second has not been submitted yet
TaggedTurns ==
    { StoredTurn(1, 1, "H1", "mom", StartTime - 2),
      StoredTurn(2, 1, "H1", "reply", StartTime - 1),
      StoredTurn(3, 2, "H2", "mom", StartTime - 1) }

TaggedSessions ==
    { [id |-> 1, household_id |-> "H1", started_at |-> StartTime - 2,
       ended_at |-> StartTime - 1],
      [id |-> 2, household_id |-> "H2", started_at |-> StartTime - 1,
       ended_at |-> Null] }

InitTag ==
    /\ now = StartTime
    /\ sessions = TaggedSessions
    /\ turns = TaggedTurns
    /\ reqs = <<>>
    /\ bg = <<>>
    /\ log = {}
    /\ summaryTriggers = {}
    /\ tagReqs = <<>>
    /\ client = IdleRecorder
    /\ direct = 0
    /\ summaries = {}
    /\ phrases = {}
    /\ genReqs = <<>>
    /\ llmCalls = 0
    /\ commits = 0
    /\ reads = <<>>
    /\ vocab = NoVocabulary
    /\ rate = NoTraffic
    /\ calc = NoCall

NextTag ==
    \/ \E sid \in TagSessionIds : PostTag(sid)
    \/ \E i \in DOMAIN tagReqs, limited \in BOOLEAN : TagRead(i, limited)
    \/ \E i \in DOMAIN tagReqs, aiOk \in BOOLEAN, tag \in SituationTags :
         TagWrite(i, aiOk, tag)
    \/ \E k \in TurnKinds, a \in DirectAsrResponses, c \in DirectChatResponses :
         DirectSubmit(k, 2, FALSE, 1, a, c)
    \/ \E r \in DOMAIN bg, dbError \in BOOLEAN : DbInsertTurn(r, dbError)
    \/ \E r \in DOMAIN bg, dbError \in BOOLEAN : DbUpdateSession(r, dbError)
    \/ \E r \in DOMAIN bg, lookupOk \in BOOLEAN : TriggerSummary(r, lookupOk)
    \/ Tick

TagSpec == InitTag /\ [][NextTag]_vars

----------------------------------------------------------------------------
(* GET /api/vocabulary/daily: analyzeVocabulary from the parsed analysis on *)

\* String.prototype.toLowerCase, over the letters of the model's words
LowerChar(c) == IF c = "G" THEN "g" ELSE c

ToLowerCase(s) == [i \in 1 .. Len(s) |-> LowerChar(s[i])]

\* a1ExclusionList (an excerpt: 'go', 'is')
a1ExclusionList == { <<"g", "o">>, <<"i", "s">> }

NounLimit == 5
VerbLimit == 5
PhraseLimit == 3

\* a word of the analysis, and a phrase
Noun(w) == [word |-> w]
PhraseItem(p) == [phrase |-> p]

\* item.word || item.phrase
TextOf(item) == IF "word" \in DOMAIN item THEN item.word ELSE item.phrase

\* a filter that compares the word as the model wrote it
IsValidAsWritten(w) == w # <<>> /\ w \notin a1ExclusionList

\* word && !a1ExclusionList.has(word), word = item.word?.toLowerCase().trim()
IsValid(w) ==
    LET word == Trim(ToLowerCase(w))
    IN  word # <<>> /\ word \notin a1ExclusionList

\* analysis.nouns.filter(...), analysis.verbs.filter(...)
FilterA1(items) == SelectSeq(items, LAMBDA it : IsValid(it.word))

\* Array.prototype.slice(0, n)
Slice(items, n) == SubSeq(items, 1, IF Len(items) < n THEN Len(items) ELSE n)

\* .filter(n => n.word && n.word.trim())
NonBlank(items) == SelectSeq(items, LAMBDA it : Trim(TextOf(it)) # <<>>)

nounsToTranslate(analysis) == NonBlank(Slice(FilterA1(analysis.nouns), NounLimit))
verbsToTranslate(analysis) == NonBlank(Slice(FilterA1(analysis.verbs), VerbLimit))
phrasesToTranslate(analysis) == NonBlank(Slice(analysis.phrases, PhraseLimit))

\* the Chinese the translation model gives for a text
Chinese(text) == <<"z", "h">> \o text

\* a catch that gives the item no translation
FallbackBlank(item) == [item |-> item, translation |-> <<>>]

\* catch of translateSequentially: the English text is the translation
Fallback(item) == [item |-> item, translation |-> TextOf(item)]

Translated(item) == [item |-> item, translation |-> Chinese(TextOf(item))]

\* translateSequentially as a function of the positions whose translation
\* fails after its retries
translateSequentially(items, failing) ==
    [i \in 1 .. Len(items) |->
        IF i \in failing THEN Fallback(items[i]) ELSE Translated(items[i])]

\* the final filter: items with a word and a translation
WithTranslation(results) ==
    SelectSeq(results,
              LAMBDA r : Trim(TextOf(r.item)) # <<>> /\ Trim(r.translation) # <<>>)

\* what analyzeVocabulary returns for a parsed analysis
VocabularyOf(analysis, failing) ==
    [nouns |-> WithTranslation(translateSequentially(nounsToTranslate(analysis), failing)),
     verbs |-> WithTranslation(translateSequentially(verbsToTranslate(analysis), failing)),
     phrases |-> WithTranslation(translateSequentially(phrasesToTranslate(analysis), failing))]

----------------------------------------------------------------------------
(* The selection of vocabulary, for any list the model may return *)

MaxItems == 6        \* entries of one list of the analysis

\* words the model may return: on the exclusion list but for case and
\* blanks, not on it, blank
ModelWords == { <<" ", "G", "o">>, <<"n", "a", "p">>, <<" ">> }

ListKinds == {"nouns", "verbs", "phrases"}

RECURSIVE ListsUpTo(_, _)
ListsUpTo(S, n) ==
    IF n = 0 THEN { <<>> }
    ELSE LET shorter == ListsUpTo(S, n - 1)
         IN  shorter \cup { Append(l, x) : l \in { m \in shorter : Len(m) = n - 1 }, x \in S }

\* an analysis whose list of one kind is l; the other two lists are short
AnalysisWith(kind, l) ==
    [nouns |-> IF kind = "nouns" THEN [i \in 1 .. Len(l) |-> Noun(l[i])]
               ELSE <<Noun(<<"n", "a", "p">>)>>,
     verbs |-> IF kind = "verbs" THEN [i \in 1 .. Len(l) |-> Noun(l[i])]
               ELSE <<Noun(<<"g", "o">>)>>,
     phrases |-> IF kind = "phrases" THEN [i \in 1 .. Len(l) |-> PhraseItem(l[i])]
                 ELSE <<>>]

\* the model's answer has been parsed
InitSelect ==
    /\ now = StartTime
    /\ sessions = {}
    /\ turns = {}
    /\ reqs = <<>>
    /\ bg = <<>>
    /\ log = {}
    /\ summaryTriggers = {}
    /\ tagReqs = <<>>
    /\ client = IdleRecorder
    /\ direct = 0
    /\ summaries = {}
    /\ phrases = {}
    /\ genReqs = <<>>
    /\ llmCalls = 0
    /\ commits = 0
    /\ reads = <<>>
    /\ \E kind \in ListKinds, l \in ListsUpTo(ModelWords, MaxItems) :
         vocab = [pc |-> "parsed", analysis |-> AnalysisWith(kind, l)]
    /\ rate = NoTraffic
    /\ calc = NoCall

\* analyzeVocabulary from the parsed analysis to its return value
analyzeVocabulary(failing) ==
    /\ vocab.pc = "parsed"
    /\ vocab' = [pc |-> "returned", analysis |-> vocab.analysis,
                 result |-> VocabularyOf(vocab.analysis, failing)]
    /\ UNCHANGED pipelineVars
    /\ UNCHANGED summaryVars
    /\ UNCHANGED rate
    /\ UNCHANGED calc

NextSelect ==
    \E failing \in SUBSET (1 .. NounLimit) : analyzeVocabulary(failing)

SelectSpec == InitSelect /\ [][NextSelect]_vars

----------------------------------------------------------------------------
(* The translations of analyzeVocabulary, request by request *)

Retries == 2         \* translateWithRetry(text, retries = 2, delayMs = 500)
DelayMs == 500
PauseMs == 200       \* the delay after a translated item

\* a loop condition that allows one attempt more
IsLastAttemptOneLater(attempt) == attempt >= Retries + 1

\* attempt < retries fails: the attempt was the last one
IsLastAttempt(attempt) == attempt >= Retries

\* delayMs * Math.pow(2, attempt)
BackoffWait(attempt) == DelayMs * (2 ^ attempt)

\* translateSequentially has its item at position idx in hand, or is done.
\* phase: "inflight" while translateText is awaited, "backoff" while the
\* wait before a retry runs, "pause" while the delay after a success runs.
\* cur: the requests sent and the waits made for the item in hand;
\* trace: the same for the items before it, and whether the item was given
\* up.
NextItem(q) ==
    IF q.idx + 1 > Len(q.items)
    THEN [q EXCEPT !.idx = @ + 1, !.phase = "done", !.wait = 0,
                   !.cur = [tries |-> 0, waits |-> <<>>]]
    ELSE [q EXCEPT !.idx = @ + 1, !.attempt = 0, !.phase = "inflight", !.wait = 0,
                   !.cur = [tries |-> 1, waits |-> <<>>]]

\* translateSequentially(items, type) up to its first await
StartSequence(items) ==
    NextItem([items |-> items, idx |-> 0, attempt |-> 0, phase |-> "idle",
              wait |-> 0, results |-> <<>>, trace |-> <<>>,
              cur |-> [tries |-> 0, waits |-> <<>>]])

\* translateText has answered for the item in hand: with text, or with
\* nothing usable (an error, an empty or a blank translation)
AfterAnswer(q, usable) ==
    LET item == q.items[q.idx]
    IN  IF usable
        THEN [q EXCEPT !.results = Append(@, Translated(item)),
                       !.trace = Append(@, [tries |-> q.cur.tries, waits |-> q.cur.waits,
                                            failed |-> FALSE]),
                       !.phase = "pause", !.wait = PauseMs]
        ELSE IF ~IsLastAttempt(q.attempt)
        THEN [q EXCEPT !.phase = "backoff", !.wait = BackoffWait(q.attempt),
                       !.cur = [@ EXCEPT !.waits = Append(@, BackoffWait(q.attempt))]]
        ELSE NextItem([q EXCEPT !.results = Append(@, Fallback(item)),
                                !.trace = Append(@, [tries |-> q.cur.tries,
                                                     waits |-> q.cur.waits,
                                                     failed |-> TRUE])])

\* what the translation model may answer to one request
TranslationAnswers == {"text", "blank", "error"}

\* the three Promise.all arguments are started
startTranslations ==
    /\ vocab.pc = "parsed"
    /\ vocab' = [pc |-> "translating", analysis |-> vocab.analysis,
                 seq |-> [nouns |-> StartSequence(nounsToTranslate(vocab.analysis)),
                          verbs |-> StartSequence(verbsToTranslate(vocab.analysis)),
                          phrases |-> StartSequence(phrasesToTranslate(vocab.analysis))]]
    /\ UNCHANGED pipelineVars
    /\ UNCHANGED summaryVars
    /\ UNCHANGED rate
    /\ UNCHANGED calc

\* a translateText call of the sequence of one kind settles
translationAnswers(kind, answer) ==
    /\ vocab.pc = "translating"
    /\ vocab.seq[kind].phase = "inflight"
    /\ vocab' = [vocab EXCEPT !.seq[kind] = AfterAnswer(@, answer = "text")]
    /\ UNCHANGED pipelineVars
    /\ UNCHANGED summaryVars
    /\ UNCHANGED rate
    /\ UNCHANGED calc

\* the wait before a retry is over: the next attempt is sent
backoffElapsed(kind) ==
    /\ vocab.pc = "translating"
    /\ vocab.seq[kind].phase = "backoff"
    /\ vocab' = [vocab EXCEPT !.seq[kind] =
                    [@ EXCEPT !.attempt = @ + 1, !.phase = "inflight", !.wait = 0,
                              !.cur = [@ EXCEPT !.tries = @ + 1]]]
    /\ UNCHANGED pipelineVars
    /\ UNCHANGED summaryVars
    /\ UNCHANGED rate
    /\ UNCHANGED calc

\* the delay after a translated item is over
pauseElapsed(kind) ==
    /\ vocab.pc = "translating"
    /\ vocab.seq[kind].phase = "pause"
    /\ vocab' = [vocab EXCEPT !.seq[kind] = NextItem(@)]
    /\ UNCHANGED pipelineVars
    /\ UNCHANGED summaryVars
    /\ UNCHANGED rate
    /\ UNCHANGED calc

\* Promise.all resolves: the final filter, and the return
returnVocabulary ==
    /\ vocab.pc = "translating"
    /\ \A kind \in ListKinds : vocab.seq[kind].phase = "done"
    /\ vocab' = [pc |-> "returned", analysis |-> vocab.analysis, seq |-> vocab.seq,
                 result |-> [kind \in ListKinds |->
                               WithTranslation(vocab.seq[kind].results)]]
    /\ UNCHANGED pipelineVars
    /\ UNCHANGED summaryVars
    /\ UNCHANGED rate
    /\ UNCHANGED calc

\* analyses of a day: words of every kind, nouns only, nothing to learn
DayAnalyses ==
    { [nouns |-> <<Noun(<<"n", "a", "p">>), Noun(<<" ", "G", "o">>), Noun(<<"b", "i", "b">>)>>,
       verbs |-> <<Noun(<<"b", "u", "r", "p">>)>>,
       phrases |-> <<PhraseItem(<<"n", "a", "p", " ", "t", "i", "m", "e">>)>>],
      [nouns |-> <<Noun(<<"n", "a", "p">>), Noun(<<"b", "i", "b">>)>>,
       verbs |-> <<>>,
       phrases |-> <<>>],
      [nouns |-> <<>>, verbs |-> <<Noun(<<"g", "o">>)>>, phrases |-> <<>>] }

InitVocabulary ==
    /\ now = StartTime
    /\ sessions = {}
    /\ turns = {}
    /\ reqs = <<>>
    /\ bg = <<>>
    /\ log = {}
    /\ summaryTriggers = {}
    /\ tagReqs = <<>>
    /\ client = IdleRecorder
    /\ direct = 0
    /\ summaries = {}
    /\ phrases = {}
    /\ genReqs = <<>>
    /\ llmCalls = 0
    /\ commits = 0
    /\ reads = <<>>
    /\ \E a \in DayAnalyses : vocab = [pc |-> "parsed", analysis |-> a]
    /\ rate = NoTraffic
    /\ calc = NoCall

NextVocabulary ==
    \/ startTranslations
    \/ \E kind \in ListKinds, answer \in TranslationAnswers : translationAnswers(kind, answer)
    \/ \E kind \in ListKinds : backoffElapsed(kind)
    \/ \E kind \in ListKinds : pauseElapsed(kind)
    \/ returnVocabulary

VocabularySpec == InitVocabulary /\ [][NextVocabulary]_vars

----------------------------------------------------------------------------
(* lib/rate-limit.ts: the limiter, with time in hours *)

HourMs == 1          \* 60 * 60 * 1000 ms, the unit of the limiter's clock

CLEANUP_INTERVAL_MS == HourMs

\* RateLimitConfigs
SESSION_START == [maxRequests |-> 15, windowMs |-> 24 * HourMs]
AUDIO_PROCESSING == [maxRequests |-> 50, windowMs |-> HourMs]
SUMMARY_GENERATION == [maxRequests |-> 10, windowMs |-> 24 * HourMs]

\* the configuration each route passes to checkRateLimit
ConfigOf(endpoint) ==
    IF endpoint = "sessions/start" THEN SESSION_START ELSE AUDIO_PROCESSING

LimitedEndpoints == {"sessions/start", "mom-turn"}

\* getClientIP(request) of the callers
ClientIPs == {"ip1"}

TimerIdle == 0 - 1   \* cleanupTimer === null

\* requestStore.get(key), absent keys included
NoRecord == [present |-> FALSE, timestamps |-> <<>>]

\* record.timestamps.filter(ts => ts > windowStart)
InWindow(timestamps, windowStart) == SelectSeq(timestamps, LAMBDA ts : ts > windowStart)

\* the cleanup callback's filter: ts => now - ts < CLEANUP_INTERVAL_MS
Recent(timestamps, clock) ==
    SelectSeq(timestamps, LAMBDA ts : clock - ts < CLEANUP_INTERVAL_MS)

\* rateLimit(request, config) at time clock for the record of the key:
\* the result and the record it leaves in the store
rateLimit(record, config, clock) ==
    LET kept == InWindow(record.timestamps, clock - config.windowMs)
    IN  IF Len(kept) >= config.maxRequests
        THEN [success |-> FALSE,
              record |-> [present |-> TRUE, timestamps |-> kept]]
        ELSE [success |-> TRUE,
              record |-> [present |-> TRUE, timestamps |-> Append(kept, clock)]]

\* createRateLimitMiddleware: 429, or null (the handler goes on)
RateLimitStatus(result) == IF result.success THEN 200 ELSE 429

\* The limiter when the server has started. clock: Date.now(); timer: when
\* the cleanup interval fires next; admitted: for each key and endpoint the
\* times of the requests let through; hits: requests made.
IdleLimiter ==
    [pc |-> "serving", clock |-> 0, timer |-> TimerIdle,
     store |-> [ip \in ClientIPs |-> NoRecord],
     admitted |-> [ip \in ClientIPs |-> [e \in LimitedEndpoints |-> <<>>]],
     hits |-> 0, status |-> 0]

MaxHits == 16        \* requests to rate limited routes
MaxHours == 2        \* hours the limiter's clock advances

\* a request of ip reaches checkRateLimit of an endpoint
checkRateLimit(ip, endpoint) ==
    /\ rate.hits < MaxHits
    /\ LET result == rateLimit(rate.store[ip], ConfigOf(endpoint), rate.clock)
       IN  rate' = [rate EXCEPT
                      !.store[ip] = result.record,
                      !.timer = IF ~rate.store[ip].present /\ @ = TimerIdle
                                THEN rate.clock + CLEANUP_INTERVAL_MS ELSE @,
                      !.admitted[ip][endpoint] =
                          IF result.success THEN Append(@, rate.clock) ELSE @,
                      !.hits = @ + 1,
                      !.status = RateLimitStatus(result)]
    /\ UNCHANGED pipelineVars
    /\ UNCHANGED summaryVars
    /\ UNCHANGED vocab
    /\ UNCHANGED calc

\* the setInterval callback of startCleanupTimer
cleanup ==
    /\ rate.timer = rate.clock
    /\ LET cleaned == [ip \in ClientIPs |->
                         LET kept == Recent(rate.store[ip].timestamps, rate.clock)
                         IN  IF rate.store[ip].present /\ kept # <<>>
                             THEN [present |-> TRUE, timestamps |-> kept]
                             ELSE NoRecord]
       IN  rate' = [rate EXCEPT
                      !.store = cleaned,
                      !.timer = IF \A ip \in ClientIPs : ~cleaned[ip].present
                                THEN TimerIdle
                                ELSE rate.clock + CLEANUP_INTERVAL_MS]
    /\ UNCHANGED pipelineVars
    /\ UNCHANGED summaryVars
    /\ UNCHANGED vocab
    /\ UNCHANGED calc

\* an hour passes; a cleanup that is due runs first
hourPasses ==
    /\ rate.clock < MaxHours
    /\ rate.timer # rate.clock
    /\ rate' = [rate EXCEPT !.clock = @ + HourMs]
    /\ UNCHANGED pipelineVars
    /\ UNCHANGED summaryVars
    /\ UNCHANGED vocab
    /\ UNCHANGED calc

InitRate ==
    /\ now = StartTime
    /\ sessions = {}
    /\ turns = {}
    /\ reqs = <<>>
    /\ bg = <<>>
    /\ log = {}
    /\ summaryTriggers = {}
    /\ tagReqs = <<>>
    /\ client = IdleRecorder
    /\ direct = 0
    /\ summaries = {}
    /\ phrases = {}
    /\ genReqs = <<>>
    /\ llmCalls = 0
    /\ commits = 0
    /\ reads = <<>>
    /\ vocab = NoVocabulary
    /\ rate = IdleLimiter
    /\ calc = NoCall

NextRate ==
    \/ \E ip \in ClientIPs, endpoint \in LimitedEndpoints : checkRateLimit(ip, endpoint)
    \/ cleanup
    \/ hourPasses

RateSpec == InitRate /\ [][NextRate]_vars

----------------------------------------------------------------------------
(* A burst of summary requests: one caller asks for the summary of one day *)
(* again and again, each request after the answer to the one before        *)

MaxBurst == 11       \* requests of the caller, all within the same hour

\* the summary model fails, or answers with five phrases
BurstOutputs == { out \in SummaryOutputs : ~out.ok \/ out.phrases = <<"a", "b", "c", "d", "e">> }

NextBurst ==
    \/ (/\ Len(genReqs) < MaxBurst
        /\ \A i \in DOMAIN genReqs : genReqs[i].pc = "done"
        /\ GenerateRead("H1", 0))
    \/ \E i \in DOMAIN genReqs, out \in BurstOutputs : GenerateCall(i, out)
    \/ \E i \in DOMAIN genReqs : TxUpsertSummary(i, TRUE)
    \/ \E i \in DOMAIN genReqs : TxDeletePhrases(i, TRUE)
    \/ \E i \in DOMAIN genReqs : TxInsertPhrase(i, TRUE)
    \/ \E i \in DOMAIN genReqs : TxCommit(i, TRUE)

BurstSpec == InitRegen /\ [][NextBurst]_vars

----------------------------------------------------------------------------
(* translateText: the token budget of a request *)

TokenFloor == 1024
TokenCap == 2048

Min(a, b) == IF a < b THEN a ELSE b
Max(a, b) == IF a > b THEN a ELSE b

\* Math.ceil(a / b) for a >= 0, b > 0
CeilDiv(a, b) == (a + b - 1) \div b

\* sourceLang === 'zh-CN' ? textLength : Math.ceil(textLength / 4)
estimatedInputTokens(textLength, sourceLang) ==
    IF sourceLang = "zh-CN" THEN textLength ELSE CeilDiv(textLength, 4)

\* a budget without the cap
maxTokensUncapped(textLength, sourceLang) ==
    Max(estimatedInputTokens(textLength, sourceLang) * 3, TokenFloor)

\* Math.min(Math.max(estimatedInputTokens * 3, 1024), 2048)
maxTokens(textLength, sourceLang) ==
    Min(Max(estimatedInputTokens(textLength, sourceLang) * 3, TokenFloor), TokenCap)

MaxTextLength == 2800    \* characters of the text to translate

Directions == { <<"zh-CN", "en-US">>, <<"en-US", "zh-CN">> }

\* everything but the function under study is idle
Idle ==
    /\ now = StartTime
    /\ sessions = {}
    /\ turns = {}
    /\ reqs = <<>>
    /\ bg = <<>>
    /\ log = {}
    /\ summaryTriggers = {}
    /\ tagReqs = <<>>
    /\ client = IdleRecorder
    /\ direct = 0
    /\ summaries = {}
    /\ phrases = {}
    /\ genReqs = <<>>
    /\ llmCalls = 0
    /\ commits = 0
    /\ reads = <<>>
    /\ vocab = NoVocabulary
    /\ rate = NoTraffic

\* translateText is called with a text of some length, in a direction
InitBudget ==
    /\ Idle
    /\ \E n \in 0 .. MaxTextLength, d \in Directions :
         calc = [pc |-> "text", textLength |-> n, sourceLang |-> d[1], targetLang |-> d[2]]

\* translateText up to the request body
buildRequestBody ==
    /\ calc.pc = "text"
    /\ calc' = [pc |-> "request", textLength |-> calc.textLength,
                sourceLang |-> calc.sourceLang, targetLang |-> calc.targetLang,
                max_tokens |-> maxTokens(calc.textLength, calc.sourceLang)]
    /\ UNCHANGED pipelineVars
    /\ UNCHANGED summaryVars
    /\ UNCHANGED <<vocab, rate>>

NextBudget == buildRequestBody

BudgetSpec == InitBudget /\ [][NextBudget]_vars

----------------------------------------------------------------------------
(* tagConversation: reading the tag out of the model's answer *)

\* The answer as a sequence of lexical pieces: the two braces, the key with
\* its colon, string literals (one of them holding a closing brace) and a
\* word of prose
LBrace == "{"
RBrace == "}"
TagKey == "\"situation_tag\":"
KitchenString == "\"kitchen\""
BraceString == "\"a}b\""
Prose == "note"

Pieces == {LBrace, RBrace, TagKey, KitchenString, BraceString, Prose}
StringLiterals == {KitchenString, BraceString}

\* the characters } of a piece: the pattern sees them inside strings too
HasClosingBrace(piece) == piece \in {RBrace, BraceString}

\* /\{[\s\S]*\}/: from the first { to the last } after it; cut tells that
\* the match ends inside a string literal. An empty sequence is no match.
GreedyMatch(content) ==
    LET opens == { i \in DOMAIN content : content[i] = LBrace }
    IN  IF opens = {}
        THEN [found |-> FALSE, text |-> <<>>, cut |-> FALSE]
        ELSE LET first == CHOOSE i \in opens : \A j \in opens : i <= j
                 closes == { i \in DOMAIN content : i > first /\ HasClosingBrace(content[i]) }
             IN  IF closes = {}
                 THEN [found |-> FALSE, text |-> <<>>, cut |-> FALSE]
                 ELSE LET last == CHOOSE i \in closes : \A j \in closes : i >= j
                      IN  [found |-> TRUE, text |-> SubSeq(content, first, last),
                           cut |-> content[last] = BraceString]

\* JSON.parse of a value starting at piece i: the position after the value,
\* or 0 when there is no value there. An object is {} or { key value }.
RECURSIVE ValueEnd(_, _)
ValueEnd(text, i) ==
    IF i > Len(text) THEN 0
    ELSE IF text[i] \in StringLiterals THEN i + 1
    ELSE IF text[i] # LBrace \/ i + 1 > Len(text) THEN 0
    ELSE IF text[i + 1] = RBrace THEN i + 2
    ELSE IF text[i + 1] # TagKey THEN 0
    ELSE LET j == ValueEnd(text, i + 2)
         IN  IF j # 0 /\ j <= Len(text) /\ text[j] = RBrace THEN j + 1 ELSE 0

\* JSON.parse(jsonMatch[0]) succeeds: the whole match is one value
JsonParses(match) ==
    /\ ~match.cut
    /\ ValueEnd(match.text, 1) = Len(match.text) + 1

\* tagResult.situation_tag of a parsed match
SituationTagOf(text) ==
    IF text[2] = RBrace THEN "undefined"
    ELSE IF text[3] \in StringLiterals THEN text[3]
    ELSE "object"

Tagging(ok, situationTag, error) ==
    [ok |-> ok, situationTag |-> situationTag, error |-> error]

\* tagConversation from the provider's content on
tagConversation(content) ==
    IF content = <<>>
    THEN Tagging(FALSE, "", "Tagging response did not contain content")
    ELSE LET jsonMatch == GreedyMatch(content)
         IN  IF jsonMatch.found /\ JsonParses(jsonMatch)
             THEN Tagging(TRUE, SituationTagOf(jsonMatch.text), "")
             ELSE Tagging(FALSE, "", "Failed to parse tagging response")

MaxContent == 5    \* pieces of the model's answer

ContentsUpTo(n) == UNION { [1 .. k -> Pieces] : k \in 0 .. n }

\* the provider answered the tagging request with some content
InitParse ==
    /\ Idle
    /\ \E content \in ContentsUpTo(MaxContent) :
         calc = [pc |-> "content", content |-> content]

\* tagConversation reads the answer
parseTagResponse ==
    /\ calc.pc = "content"
    /\ calc' = [pc |-> "tagged", content |-> calc.content,
                result |-> tagConversation(calc.content)]
    /\ UNCHANGED pipelineVars
    /\ UNCHANGED summaryVars
    /\ UNCHANGED <<vocab, rate>>

NextParse == parseTagResponse

ParseSpec == InitParse /\ [][NextParse]_vars

----------------------------------------------------------------------------
(* analyzeVocabulary from its first request to the parsed analysis *)

\* The model's answer as a sequence of lexical pieces: braces, brackets,
\* the key "nouns": with its colon, one entry {"word":"nap","count":2} and
\* a word of prose
LBracket == "["
RBracket == "]"
NounsKey == "\"nouns\":"
Entry == "{\"word\":\"nap\",\"count\":2}"

AnswerPieces == {LBrace, RBrace, LBracket, RBracket, NounsKey, Entry, Prose}

\* const firstBrace = text.indexOf('{'): the first piece that starts with {
FirstBrace(text) ==
    LET opens == { i \in DOMAIN text : text[i] \in {LBrace, Entry} }
    IN  IF opens = {} THEN 0 ELSE CHOOSE i \in opens : \A j \in opens : i <= j

\* the loop of extractJSON from piece i on with braceCount open braces: the
\* position of the closing brace that brings the count to 0, or 0
RECURSIVE MatchingBrace(_, _, _)
MatchingBrace(text, i, braceCount) ==
    IF i > Len(text) THEN 0
    ELSE IF text[i] = Entry
    THEN IF braceCount = 0 THEN i ELSE MatchingBrace(text, i + 1, braceCount)
    ELSE IF text[i] = LBrace THEN MatchingBrace(text, i + 1, braceCount + 1)
    ELSE IF text[i] = RBrace
    THEN IF braceCount = 1 THEN i ELSE MatchingBrace(text, i + 1, braceCount - 1)
    ELSE MatchingBrace(text, i + 1, braceCount)

\* extractJSON(text): <<>> stands for null
extractJSON(text) ==
    LET firstBrace == FirstBrace(text)
        last == IF firstBrace = 0 THEN 0 ELSE MatchingBrace(text, firstBrace, 0)
    IN  IF last = 0 THEN <<>> ELSE SubSeq(text, firstBrace, last)

\* content.match(/\{[\s\S]*\}/): <<>> stands for no match
regexMatch(text) ==
    LET firstBrace == FirstBrace(text)
        closes == { i \in DOMAIN text : i >= firstBrace /\ text[i] \in {RBrace, Entry} }
    IN  IF firstBrace = 0 \/ closes = {} THEN <<>>
        ELSE SubSeq(text, firstBrace, CHOOSE i \in closes : \A j \in closes : i >= j)

\* an extraction that stops at the brace-matched substring
ExtractedWithoutRegex(content) == extractJSON(content)

\* let jsonStr = extractJSON(content); if (!jsonStr) the regex
Extracted(content) ==
    IF extractJSON(content) # <<>> THEN extractJSON(content) ELSE regexMatch(content)

\* (str.match(/c/g) || []).length
CountOf(text, pieces) == Cardinality({ i \in DOMAIN text : text[i] \in pieces })

Repeat(piece, n) == [i \in 1 .. n |-> piece]

\* the clean-up before JSON.parse: missing ] are appended, then missing }
Cleaned(jsonStr) ==
    LET openBraces == CountOf(jsonStr, {LBrace, Entry})
        closeBraces == CountOf(jsonStr, {RBrace, Entry})
        openBrackets == CountOf(jsonStr, {LBracket})
        closeBrackets == CountOf(jsonStr, {RBracket})
    IN  jsonStr
        \o (IF openBrackets > closeBrackets
            THEN Repeat(RBracket, openBrackets - closeBrackets) ELSE <<>>)
        \o (IF openBraces > closeBraces
            THEN Repeat(RBrace, openBraces - closeBraces) ELSE <<>>)

\* JSON.parse of a value starting at piece i: the position after the value,
\* or 0. A value is an entry, {}, { key value }, [] or [ value ].
RECURSIVE JsonValueEnd(_, _)
JsonValueEnd(text, i) ==
    IF i > Len(text) THEN 0
    ELSE IF text[i] = Entry THEN i + 1
    ELSE IF i + 1 > Len(text) THEN 0
    ELSE IF text[i] = LBrace
    THEN IF text[i + 1] = RBrace THEN i + 2
         ELSE IF text[i + 1] # NounsKey THEN 0
         ELSE LET j == JsonValueEnd(text, i + 2)
              IN  IF j # 0 /\ j <= Len(text) /\ text[j] = RBrace THEN j + 1 ELSE 0
    ELSE IF text[i] = LBracket
    THEN IF text[i + 1] = RBracket THEN i + 2
         ELSE LET j == JsonValueEnd(text, i + 1)
              IN  IF j # 0 /\ j <= Len(text) /\ text[j] = RBracket THEN j + 1 ELSE 0
    ELSE 0

\* JSON.parse(text) returns
IsJson(text) == JsonValueEnd(text, 1) = Len(text) + 1

\* the analysis a parsed text stands for: its nouns when "nouns" is an
\* array of one entry, and empty lists otherwise
AnalysisOf(text) ==
    [nouns |-> IF text = <<LBrace, NounsKey, LBracket, Entry, RBracket, RBrace>>
               THEN <<Noun(<<"n", "a", "p">>)>> ELSE <<>>,
     verbs |-> <<>>,
     phrases |-> <<>>]

\* analyzeVocabulary between two awaits. pc names the request that is
\* awaited ("deepseek", "deepseek-retry", "gpt-5", "gpt-5-retry" for the
\* analysis, "extract-ai" and "parse-ai" for the two extraction requests),
\* or "parsed", or "failed"; analysisCalls and extractionCalls count the
\* requests sent, extraction is the answer to the last extraction request
NoExtraction == [ok |-> FALSE, content |-> <<>>]

FirstRequest ==
    [pc |-> "deepseek", analysisCalls |-> 1, extractionCalls |-> 0, content |-> <<>>,
     jsonStr |-> <<>>, extraction |-> NoExtraction, error |-> ""]

NoJsonFound == "No JSON found in response and AI extraction failed"
ParseFailed == "Failed to parse analysis response"
AnalysisFailed == "Vocabulary analysis failed"
FetchFailed == "fetch failed"
NoContent == "Analysis response did not contain content"

FailedWith(a, error) == [a EXCEPT !.pc = "failed", !.error = error]

\* the request of another model, or the retry of the same one, is sent
Ask(a, request) == [a EXCEPT !.pc = request, !.analysisCalls = @ + 1]

\* the try block of the parse: clean up, JSON.parse; in its catch the
\* extraction request is sent
TryParse(a, jsonStr) ==
    IF IsJson(Cleaned(jsonStr))
    THEN [a EXCEPT !.pc = "parsed", !.jsonStr = Cleaned(jsonStr)]
    ELSE [a EXCEPT !.pc = "parse-ai", !.jsonStr = jsonStr, !.extractionCalls = @ + 1]

\* from response.json() to the next await
AfterContent(a, content) ==
    IF content = <<>>
    THEN FailedWith(a, NoContent)
    ELSE IF Extracted(content) = <<>>
    THEN [a EXCEPT !.pc = "extract-ai", !.content = content, !.extractionCalls = @ + 1]
    ELSE TryParse([a EXCEPT !.content = content], Extracted(content))

\* what a chat completion request may come back with: a 2xx answer, a
\* refusal that names response_format, another refusal, a failed fetch
FetchOutcomes == {"ok", "unsupported", "error", "throw"}

AnalysisRequests == {"deepseek", "deepseek-retry", "gpt-5", "gpt-5-retry"}

\* a handler that repeats a refused request once more than the code does
AfterAnalysisAnswerAskingAgain(a, outcome, content) ==
    IF outcome = "ok" THEN AfterContent(a, content)
    ELSE IF a.analysisCalls < 5 THEN Ask(a, "gpt-5-retry")
    ELSE FailedWith(a, AnalysisFailed)

\* the analysis request that is awaited settles
AfterAnalysisAnswer(a, outcome, content) ==
    IF outcome = "ok" THEN AfterContent(a, content)
    ELSE IF a.pc = "deepseek"
    THEN IF outcome = "unsupported" THEN Ask(a, "deepseek-retry") ELSE Ask(a, "gpt-5")
    ELSE IF a.pc = "deepseek-retry" THEN Ask(a, "gpt-5")
    ELSE IF outcome = "throw" THEN FailedWith(a, FetchFailed)
    ELSE IF a.pc = "gpt-5" /\ outcome = "unsupported" THEN Ask(a, "gpt-5-retry")
    ELSE FailedWith(a, AnalysisFailed)

\* extractJSON(extractedContent) || extractedContent
ExtractedJson(extractedContent) ==
    IF extractJSON(extractedContent) # <<>> THEN extractJSON(extractedContent)
    ELSE extractedContent

\* the extraction request that is awaited settles
AfterExtractionAnswer(a, ok, extractedContent) ==
    LET b == [a EXCEPT !.extraction = [ok |-> ok, content |-> extractedContent]]
        json == ExtractedJson(extractedContent)
    IN  IF a.pc = "extract-ai"
        THEN IF ok /\ extractedContent # <<>> /\ json[1] \in {LBrace, Entry}
             THEN TryParse(b, json)
             ELSE FailedWith(b, NoJsonFound)
        ELSE IF ok /\ extractedContent # <<>> /\ IsJson(json)
             THEN [b EXCEPT !.pc = "parsed", !.jsonStr = json]
             ELSE FailedWith(b, ParseFailed)

\* the analysis goes on to the filters and the translations
Parsed(a) ==
    IF a.pc = "parsed" THEN [pc |-> "parsed", analysis |-> AnalysisOf(a.jsonStr)] ELSE vocab

MaxAnswer == 3       \* pieces of the answer to the analysis request

AnswersUpTo(n) == UNION { [1 .. k -> AnswerPieces] : k \in 0 .. n }

\* answers to an extraction request: nothing, prose, an empty object, an
\* array, braces around prose, the analysis inside prose, the analysis cut
\* off
ExtractionAnswers ==
    { <<>>, <<Prose>>, <<LBrace, RBrace>>, <<LBracket, RBracket>>,
      <<LBrace, Prose, RBrace>>,
      <<Prose, LBrace, NounsKey, LBracket, Entry, RBracket, RBrace, Prose>>,
      <<LBrace, NounsKey, LBracket, Entry>> }

analysisAnswers(outcome, content) ==
    /\ calc.pc \in AnalysisRequests
    /\ calc' = AfterAnalysisAnswer(calc, outcome, content)
    /\ vocab' = Parsed(calc')
    /\ UNCHANGED pipelineVars
    /\ UNCHANGED summaryVars
    /\ UNCHANGED rate

extractionAnswers(ok, extractedContent) ==
    /\ calc.pc \in {"extract-ai", "parse-ai"}
    /\ calc' = AfterExtractionAnswer(calc, ok, extractedContent)
    /\ vocab' = Parsed(calc')
    /\ UNCHANGED pipelineVars
    /\ UNCHANGED summaryVars
    /\ UNCHANGED rate

\* analyzeVocabulary has sent its first request
InitAnalysis ==
    /\ Idle
    /\ calc = FirstRequest

NextAnalysis ==
    \/ \E outcome \in FetchOutcomes : analysisAnswers(outcome, <<>>)
    \/ \E content \in AnswersUpTo(MaxAnswer) : analysisAnswers("ok", content)
    \/ \E ok \in BOOLEAN, c \in ExtractionAnswers : extractionAnswers(ok, c)
    \/ startTranslations
    \/ \E kind \in ListKinds, answer \in TranslationAnswers : translationAnswers(kind, answer)
    \/ \E kind \in ListKinds : backoffElapsed(kind)
    \/ \E kind \in ListKinds : pauseElapsed(kind)
    \/ returnVocabulary

AnalysisSpec == InitAnalysis /\ [][NextAnalysis]_vars

\* every request that is awaited settles: fetch ends with an answer or an
\* error, and the timers of the translations run out
FairAnalysisSpec == AnalysisSpec /\ WF_vars(NextAnalysis)

----------------------------------------------------------------------------
(* Properties of the pipeline *)

SlotRows(table, sid, idx) ==
    { t \in table : t.session_id = sid /\ t.turn_index = idx }

SameButTag(t, u) ==
    u = [t EXCEPT !.situation_tag = u.situation_tag, !.updated_at = u.updated_at]

\* C1: the store never holds more than one Turn per (session, turn_index),
\* and a step never replaces or alters the Turn that occupies a slot: a
\* second write at an occupied index is rejected and the existing Turn
\* stays as it was (only its tag may be set), under any interleaving of
\* repeated or concurrent submissions.
C1_OneTurnPerSlot ==
    [][\A sid \in SessionIds, idx \in {0, 1} :
         /\ Cardinality(SlotRows(turns', sid, idx)) <= 1
         /\ \A t \in SlotRows(turns, sid, idx) :
              \E u \in SlotRows(turns', sid, idx) : SameButTag(t, u)
         /\ \A r \in DOMAIN bg :
              (/\ bg[r].insert = "pending"
               /\ bg'[r].insert # "pending"
               /\ reqs[r].sid = sid
               /\ TurnIndex(reqs[r].kind) = idx
               /\ SlotRows(turns, sid, idx) # {})
              => (turns' = turns /\ WriteFailed(bg'[r].insert))]_vars

\* C1 witness: a second write at an occupied slot was rejected
C1_Witness ==
    \E r \in DOMAIN bg :
        /\ bg[r].insert = "rejected"
        /\ \E t \in SlotRows(turns, reqs[r].sid, TurnIndex(reqs[r].kind)) : t.id # r

\* C2 (as claimed): a session's ended_at is null unless both of its Turn
\* rows are persisted, and once non-null it is >= started_at.
C2_EndedOnlyAfterBothTurns ==
    \A s \in sessions :
        s.ended_at # Null =>
            /\ TurnIndexesOf(s.id) = {0, 1}
            /\ s.ended_at >= s.started_at

BlankTranscript(asr) == asr.ok /\ (~asr.hasText \/ Trim(asr.text) = <<>>)

\* C3: for either turn, when the transcription comes back empty or blank,
\* the submission is answered 400 with the no-speech error, no translation
\* request is made, no Turn row is written for it and it issues no update
\* of the session's ended_at.
C3_EmptySpeechRejected ==
    \A r \in DOMAIN reqs :
        (reqs[r].resp.asrCalls = 1 /\ BlankTranscript(reqs[r].asr)) =>
            /\ reqs[r].resp.status = 400
            /\ reqs[r].resp.error = "No speech detected in audio. Please try speaking again."
            /\ reqs[r].resp.trCalls = 0
            /\ bg[r].insert = "none"
            /\ bg[r].update = "none"
            /\ \A t \in turns : t.id # r

\* C3 witness: the reply turn of a session whose first turn went through
\* came back with a whitespace-only transcript and was answered
C3_Witness ==
    \E r \in DOMAIN reqs :
        /\ reqs[r].kind = "reply"
        /\ reqs[r].asr.ok
        /\ reqs[r].asr.text = <<" ", " ">>
        /\ reqs[r].resp.status = 400
        /\ TurnIndexesOf(reqs[r].sid) = {0}

IsSuccessPayload(resp) ==
    /\ resp.status = 200
    /\ resp.error = ""
    /\ resp.sourceText # <<>>
    /\ resp.translatedText # <<>>

\* C4: a response, once returned, never changes: a submission whose
\* transcription and translation succeeded has the success payload
\* whether its background insert (and session update) succeeds or fails.
\* A failed write is logged, leaves the recorder untouched and is never
\* issued again.
C4_SaveFailureNotSurfaced ==
    [][\A r \in DOMAIN reqs :
         /\ reqs'[r] = reqs[r]
         /\ (bg'[r].insert # "none") => IsSuccessPayload(reqs'[r].resp)
         /\ (WriteFailed(bg'[r].insert) \/ WriteFailed(bg'[r].update)) =>
               /\ SaveFailedLine(r) \in log'
               /\ (bg'[r] # bg[r] => client' = client)
         /\ WriteFailed(bg[r].insert) => bg'[r].insert = bg[r].insert
         /\ WriteFailed(bg[r].update) => bg'[r].update = bg[r].update]_vars

\* C4 witness: the recorder got a success payload, is playing it, and the
\* insert behind it has failed
C4_Witness ==
    \E r \in DOMAIN reqs :
        /\ reqs[r].byClient
        /\ reqs[r].kind = "reply"
        /\ bg[r].insert = "failed"
        /\ bg[r].update = "failed"
        /\ client.state = "completed"
        /\ client.error = ""

ReplyWriteIssued(sid) ==
    \E r \in DOMAIN reqs :
        reqs[r].kind = "reply" /\ reqs[r].sid = sid /\ bg[r].insert # "none"

\* C5: neither the daily-summary trigger nor the tagging trigger of a
\* session is issued before the reply turn's persistence write has been
\* issued.
C5_EnrichmentAfterReplyWrite ==
    /\ \A tr \in summaryTriggers :
         bg[tr.req].insert # "none" /\ reqs[tr.req].kind = "reply"
    /\ \A i \in DOMAIN tagReqs : ReplyWriteIssued(tagReqs[i].sid)

\* C5 witness: both triggers have been issued for a session
C5_Witness ==
    \E tr \in summaryTriggers :
        \E i \in DOMAIN tagReqs : tagReqs[i].sid = tr.sid

\* C6 (as claimed): the daily summary is triggered only in a state where
\* both Turn rows of the session are written.
C6_SummaryAfterBothTurns ==
    \A tr \in summaryTriggers : tr.present = {0, 1}

\* C7 (as claimed): whenever the tag request of a completed session reads
\* the session's turns, both Turn rows are present, and the tag is written
\* to both.
C7_TagSeesBothTurns ==
    \A i \in DOMAIN tagReqs :
        /\ (tagReqs[i].pc # "received" /\ tagReqs[i].status # 429) =>
              tagReqs[i].read = {0, 1}
        /\ tagReqs[i].status = 200 => tagReqs[i].written = {0, 1}

\* C8 (as claimed): the summary date the background trigger asks for is
\* the household-local calendar date of the instant of the trigger.
C8_SummaryDateIsLocalToday ==
    \A tr \in summaryTriggers :
        tr.summaryDate = LocalDate(tr.at, Timezone(tr.householdId))

----------------------------------------------------------------------------
(* Properties of summary generation *)

\* the half hours of local calendar date d
LocalDay(d) == (d * SlotsPerDay) .. (d * SlotsPerDay + SlotsPerDay - 1)

\* the New York household's turn that ended at 2024-12-02T04:30:00Z
TurnAt0430Z == StoredTurn(1, 1, "H1", "mom", 9)

\* C9: summary generation for (household, local date D) selects a turn if
\* and only if the turn belongs to the household and its end timestamp,
\* shifted to the household's time zone, lies within day D; the New York
\* turn ended at 2024-12-02T04:30Z is selected for 2024-12-01 (date -1)
\* and not for 2024-12-02 (date 0).
C9_TurnsOfLocalDate ==
    \A i \in DOMAIN genReqs :
        LET q == genReqs[i]
        IN  q.householdId \in Households =>
              /\ \A t \in turns :
                   (t.id \in q.selected) <=>
                      /\ t.household_id = q.householdId
                      /\ t.ended_at + UtcOffset(Timezone(q.householdId))
                           \in LocalDay(q.targetDate)
              /\ (q.householdId = "H1" /\ TurnAt0430Z \in turns) =>
                   /\ q.targetDate = 0 - 1 => TurnAt0430Z.id \in q.selected
                   /\ q.targetDate = 0 => TurnAt0430Z.id \notin q.selected

\* C9 witness: with both New York turns stored, a summary was generated
\* for 2024-12-01 from the 04:30Z turn alone
C9_Witness ==
    \E i \in DOMAIN genReqs :
        /\ genReqs[i].householdId = "H1"
        /\ genReqs[i].targetDate = 0 - 1
        /\ genReqs[i].status = 200
        /\ { t \in turns : t.household_id = "H1" } =
              { TurnAt0430Z, StoredTurn(2, 1, "H1", "reply", 10) }
        /\ genReqs[i].selected = {TurnAt0430Z.id}

\* C10: a summary request for a (household, date) with no matching turn
\* is answered with the no-conversations error, makes no model call and
\* writes no summary row and no phrase row.
C10_NoConversations ==
    \A i \in DOMAIN genReqs :
        (genReqs[i].householdId \in Households /\ genReqs[i].selected = {}) =>
            /\ genReqs[i].pc = "done"
            /\ genReqs[i].status = 404
            /\ genReqs[i].error = "No conversations found for the specified date"
            /\ genReqs[i].llm = 0
            /\ \A x \in summaries \cup phrases : x.gen # i

\* C10 witness: the household has turns, but none on the requested date
C10_Witness ==
    \E i \in DOMAIN genReqs :
        /\ genReqs[i].householdId = "H2"
        /\ genReqs[i].targetDate = 0 - 1
        /\ genReqs[i].status = 404
        /\ \E t \in turns : t.household_id = "H2"
        /\ llmCalls = 0

----------------------------------------------------------------------------
(* Properties of the summary write *)

InvalidPhraseCount(q) ==
    q.llm = 1 /\ q.model.ok /\ Len(q.model.phrases) # PhrasesPerSummary

\* C11: when the summary model's output has fewer or more than five
\* phrases, the request ends with the exactly-5-phrases error, the step
\* that receives the output leaves the stored summaries and phrases as they
\* were, and no row of that generation is ever stored.
C11_WrongPhraseCountRejected ==
    [][\A i \in DOMAIN genReqs' :
         InvalidPhraseCount(genReqs'[i]) =>
            /\ genReqs'[i].pc = "done"
            /\ genReqs'[i].status = 500
            /\ genReqs'[i].error = "Summary must contain exactly 5 phrases"
            /\ \A x \in summaries' \cup phrases' : x.gen # i
            /\ genReqs[i].pc = "generating" =>
                  (summaries' = summaries /\ phrases' = phrases)]_vars

\* C11 witness: a summary with its five phrases is stored, and a later
\* generation for the same date that came back with six phrases was refused
C11_Witness ==
    \E i, j \in DOMAIN genReqs :
        /\ j < i
        /\ genReqs[j].status = 200
        /\ genReqs[i].householdId = genReqs[j].householdId
        /\ genReqs[i].targetDate = genReqs[j].targetDate
        /\ Len(genReqs[i].model.phrases) > PhrasesPerSummary
        /\ genReqs[i].status = 500
        /\ Cardinality(SummaryKeyRows(phrases, genReqs[j].householdId,
                                      genReqs[j].targetDate)) = PhrasesPerSummary

PhraseSet(list) == { list[k] : k \in DOMAIN list }

\* C12: when a generation commits for a (household, date) that already
\* has a summary, the key has exactly one summary row, holding that
\* generation's fields, and the stored phrases of the key are exactly the
\* phrases of that generation, each at its rank: no other phrase remains.
C12_RegenerationReplaces ==
    [][\A i \in DOMAIN genReqs :
         LET q == genReqs[i]
             h == q.householdId
             d == q.targetDate
         IN  (/\ q.pc = "tx-commit"
              /\ genReqs'[i].status = 200
              /\ SummaryKeyRows(summaries, h, d) # {}) =>
                /\ Cardinality(SummaryKeyRows(summaries', h, d)) = 1
                /\ \A x \in SummaryKeyRows(summaries', h, d) : x.gen = i
                /\ { x.phrase_en : x \in SummaryKeyRows(phrases', h, d) }
                      = PhraseSet(q.phrases)
                /\ \A x \in SummaryKeyRows(phrases', h, d) :
                      /\ x.gen = i
                      /\ x.phrase_rank \in DOMAIN q.phrases
                      /\ q.phrases[x.phrase_rank] = x.phrase_en
                /\ Cardinality(SummaryKeyRows(phrases', h, d))
                      = Cardinality(PhraseSet(q.phrases))]_vars

\* C12 witness: two generations for one date committed one after the
\* other with different phrases, and the second one's phrases are stored
C12_Witness ==
    \E i, j \in DOMAIN genReqs :
        /\ genReqs[i].status = 200
        /\ genReqs[j].status = 200
        /\ genReqs[i].householdId = genReqs[j].householdId
        /\ genReqs[i].targetDate = genReqs[j].targetDate
        /\ genReqs[i].seq < genReqs[j].seq
        /\ PhraseSet(genReqs[i].phrases) # PhraseSet(genReqs[j].phrases)
        /\ { x.phrase_en : x \in SummaryKeyRows(phrases, genReqs[j].householdId,
                                                genReqs[j].targetDate) }
              = PhraseSet(genReqs[j].phrases)

\* the committed tables: every summary row has the complete phrase set of
\* its own generation, and every phrase row belongs to a summary row
CommittedConsistent ==
    /\ \A x \in summaries :
         LET P == SummaryKeyRows(phrases, x.household_id, x.summary_date)
         IN  /\ genReqs[x.gen].status = 200
             /\ \A y \in P : y.gen = x.gen
             /\ { y.phrase_en : y \in P } = PhraseSet(genReqs[x.gen].phrases)
    /\ \A y \in phrases :
         SummaryKeyRows(summaries, y.household_id, y.summary_date) # {}

\* what the readers got: with a summary, the complete phrase set of one
\* committed generation, not an older one than the summary's
ReadsConsistent ==
    \A r \in DOMAIN reads :
        (reads[r].pc = "done" /\ reads[r].status = 200) =>
            \E g \in DOMAIN genReqs :
                /\ genReqs[g].status = 200
                /\ genReqs[g].householdId = reads[r].householdId
                /\ genReqs[g].targetDate = reads[r].date
                /\ genReqs[g].seq >= genReqs[reads[r].summary].seq
                /\ \A y \in reads[r].phrases : y.gen = g
                /\ { y.phrase_en : y \in reads[r].phrases } = PhraseSet(genReqs[g].phrases)

\* C13: the summary write is atomic. A step in which a statement of an
\* open transaction fails leaves the summary rows and the phrase rows as
\* they were before the write; at every moment the committed tables hold,
\* for each summary, the complete phrase set of its generation; and a
\* reader that got a summary got a complete phrase set with it.
C13_SummaryWriteAtomic ==
    [][/\ \A i \in DOMAIN genReqs :
            (InTransaction(genReqs[i]) /\ genReqs'[i].status = 500) =>
                (summaries' = summaries /\ phrases' = phrases)
       /\ CommittedConsistent'
       /\ ReadsConsistent']_vars

\* C13 witness: a regeneration failed after it had inserted two of its
\* phrases, and a reader of that date got the earlier generation
C13_Witness ==
    \E i \in DOMAIN genReqs, r \in DOMAIN reads :
        /\ genReqs[i].error = "transaction failed"
        /\ genReqs[i].k >= 3
        /\ reads[r].householdId = genReqs[i].householdId
        /\ reads[r].date = genReqs[i].targetDate
        /\ reads[r].status = 200
        /\ reads[r].summary # i
        /\ Cardinality(reads[r].phrases) = PhrasesPerSummary

----------------------------------------------------------------------------
(* Properties of the turn endpoints: provider failures *)

CutOffError == "Translation was cut off due to token limit"

EmptyContentError == "Translation response did not contain text"

\* C14: a translation that comes back with empty content is never handed
\* on as a translation: with finish_reason "length" the submission fails
\* with the cut-off error, with any other finish reason it fails with the
\* empty-content error, the two errors differ, and in both cases no Turn
\* write is issued; a submission answered 200 carries a non-empty
\* translation.
C14_EmptyTranslationRejected ==
    /\ CutOffError # EmptyContentError
    /\ \A r \in DOMAIN reqs :
         /\ (reqs[r].resp.trCalls = 1 /\ reqs[r].chat.ok /\ reqs[r].chat.content = <<>>) =>
               /\ reqs[r].resp.status = 500
               /\ reqs[r].resp.error =
                     IF reqs[r].chat.finish_reason = "length"
                     THEN CutOffError ELSE EmptyContentError
               /\ bg[r].insert = "none"
               /\ \A t \in turns : t.id # r
         /\ reqs[r].resp.status = 200 => reqs[r].resp.translatedText # <<>>

\* C14 witness: the reply of a session was cut off at the token limit
\* after the first turn had been translated and stored
C14_Witness ==
    \E r \in DOMAIN reqs :
        /\ reqs[r].kind = "reply"
        /\ reqs[r].chat.ok
        /\ reqs[r].chat.content = <<>>
        /\ reqs[r].chat.finish_reason = "length"
        /\ reqs[r].resp.error = CutOffError
        /\ TurnIndexesOf(reqs[r].sid) = {0}

ProvidersSucceeded(q) ==
    /\ q.resp.asrCalls = 1
    /\ q.asr.ok
    /\ q.asr.hasText
    /\ Trim(q.asr.text) # <<>>
    /\ q.resp.trCalls = 1
    /\ q.chat.ok
    /\ q.chat.content # <<>>

\* C15: a Turn insert is issued, and a Turn row exists, only for a
\* submission whose transcription and translation both succeeded; a
\* submission whose transcription or translation failed, timed out or came
\* back empty issues no write and is answered at once with an error status
\* and an error message.
C15_TurnOnlyAfterSuccess ==
    \A r \in DOMAIN reqs :
        /\ bg[r].insert # "none" => ProvidersSucceeded(reqs[r])
        /\ \A t \in turns : t.id = r => ProvidersSucceeded(reqs[r])
        /\ (reqs[r].resp.asrCalls = 1 /\ ~ProvidersSucceeded(reqs[r])) =>
              /\ bg[r] = [insert |-> "none", update |-> "none", chain |-> "none"]
              /\ reqs[r].resp.status \in {400, 500}
              /\ reqs[r].resp.error # ""

\* C15 witness: the recorder's first turn failed in transcription and the
\* recorder shows the error, while another caller's turn was stored
C15_Witness ==
    \E r \in DOMAIN reqs :
        /\ reqs[r].byClient
        /\ reqs[r].resp.asrCalls = 1
        /\ ~reqs[r].asr.ok
        /\ reqs[r].resp.status = 500
        /\ client.error = reqs[r].resp.error
        /\ \E t \in turns : t.id # r

----------------------------------------------------------------------------
(* Properties of the recorder *)

StateOrder ==
    <<"idle", "recording-mom", "processing-mom", "playing-english",
      "recording-partner", "processing-partner", "playing-chinese", "completed">>

IsNextState(s, t) ==
    \E k \in 1 .. (Len(StateOrder) - 1) : s = StateOrder[k] /\ t = StateOrder[k + 1]

\* C16 (as claimed): every change of the recorder's state is a move to the
\* next state of idle, recording-mom, processing-mom, playing-english,
\* recording-partner, processing-partner, playing-chinese, completed, or
\* a move to idle that reports a failure, or the reset from completed to
\* idle.
C16_StateMachineOrder ==
    [][\/ client'.state = client.state
       \/ IsNextState(client.state, client'.state)
       \/ (client'.state = "idle" /\ client'.error # "")
       \/ (client.state = "completed" /\ client'.state = "idle")]_vars

\* C17 (as claimed): while an error is shown the recorder is idle, and a
\* turn is never submitted to a session for which a failure was reported.
C17_FailureEndsSession ==
    [][/\ client'.error # "" => client'.state = "idle"
       /\ Len(reqs') > Len(reqs) =>
             reqs'[Len(reqs')].sid \notin client.failed]_vars

ReplyCaptureOn(c) == c.ref.kind = "partner" /\ c.ref.state = "recording"

C19_ReplyCutOffAtTenSeconds ==
    [][/\ (ReplyCaptureOn(client') \/ client'.lost.partner > 0) =>
             /\ ReplyCaptureOn(client')
             /\ client'.lost.partner = 0
             /\ client'.timer \in 0 .. AutoStopSeconds
       /\ (/\ client.ref.kind = "mom"
           /\ client.ref.state = "recording"
           /\ client'.ref # client.ref) =>
             /\ client'.chain = "mom-stop"
             /\ client'.state = "processing-mom"]_vars

\* C20 (as claimed): the transcription client is never called with
\* audio of size zero.
C20_NoEmptyAudioTranscribed ==
    \A r \in DOMAIN reqs :
        reqs[r].resp.asrCalls = 1 => reqs[r].audio > 0

----------------------------------------------------------------------------
(* Properties of tagging *)

\* what a Turn is, apart from its tag and the time of its last update
TurnContent(t) ==
    <<t.id, t.session_id, t.household_id, t.speaker_user_id, t.speaker_role,
      t.turn_index, t.ended_at, t.source_lang, t.target_lang, t.source_text,
      t.translated_text, t.asr_request_id, t.translation_request_id, t.created_at>>

\* in this step a tag request for session sid wrote its tag
Tagged(sid) ==
    \E i \in DOMAIN tagReqs :
        /\ tagReqs[i].sid = sid
        /\ tagReqs[i].pc = "tagging"
        /\ tagReqs'[i].pc = "done"
        /\ tagReqs'[i].status = 200

----------------------------------------------------------------------------
(* Properties of the vocabulary *)

WordsOf(items) == { Trim(ToLowerCase(items[i].item.word)) : i \in DOMAIN items }

\* C22: the vocabulary returned has at most 5 nouns, at most 5 verbs and at
\* most 3 phrases, and no noun or verb of it, lower-cased and trimmed, is
\* on the exclusion list, whatever lists the model returned.
C22_VocabularyBounded ==
    vocab.pc = "returned" =>
        /\ Len(vocab.result.nouns) <= NounLimit
        /\ Len(vocab.result.verbs) <= VerbLimit
        /\ Len(vocab.result.phrases) <= PhraseLimit
        /\ WordsOf(vocab.result.nouns) \cap a1ExclusionList = {}
        /\ WordsOf(vocab.result.verbs) \cap a1ExclusionList = {}

\* C22 witness: the model returned six verbs, an excluded one in capitals
\* among them, and five verbs are returned
C22_Witness ==
    /\ vocab.pc = "returned"
    /\ Len(vocab.analysis.verbs) = MaxItems
    /\ \E i \in DOMAIN vocab.analysis.verbs :
         /\ vocab.analysis.verbs[i].word = <<" ", "G", "o">>
         /\ i < Len(vocab.analysis.verbs)
    /\ Len(vocab.result.verbs) = VerbLimit


\* translateText calls of one extraction that have not settled
InFlight ==
    IF vocab.pc # "translating" THEN 0
    ELSE Cardinality({ kind \in ListKinds : vocab.seq[kind].phase = "inflight" })

\* C23 (as claimed): at no time during a vocabulary extraction is more than
\* one item-translation request in flight.
C23_OneTranslationInFlight == InFlight <= 1

\* the items done with: the requests sent and the waits made for each
DoneTraces ==
    IF vocab.pc \notin {"translating", "returned"} THEN {}
    ELSE UNION { { vocab.seq[kind].trace[i] : i \in DOMAIN vocab.seq[kind].trace } :
                 kind \in ListKinds }

\* the items in hand: the same
CurrentTraces ==
    IF vocab.pc \notin {"translating", "returned"} THEN {}
    ELSE { vocab.seq[kind].cur : kind \in ListKinds }

\* C24: a vocabulary item is sent to translation at most 3 times, the wait
\* before the second attempt is 500 ms and before the third 1000 ms, and
\* an item is given up exactly when its third attempt has failed, with no
\* further wait.
C24_BoundedRetries ==
    /\ \A t \in DoneTraces \cup CurrentTraces :
          /\ t.tries <= 3
          /\ \E n \in 0 .. 2 : t.waits = SubSeq(<<500, 1000>>, 1, n)
          /\ t.tries \in {0, Len(t.waits), Len(t.waits) + 1}
    /\ \A t \in DoneTraces :
          t.failed => (t.tries = 3 /\ t.waits = <<500, 1000>>)

\* C24 witness: the first noun failed three times and the second is in hand
C24_Witness ==
    /\ vocab.pc = "translating"
    /\ Len(vocab.seq.nouns.trace) >= 1
    /\ vocab.seq.nouns.trace[1] = [tries |-> 3, waits |-> <<500, 1000>>, failed |-> TRUE]
    /\ vocab.seq.nouns.idx = 2
    /\ vocab.seq.nouns.phase = "inflight"

\* C25: the vocabulary that is returned holds every item that was to be
\* translated, in order, whatever translations failed; an item that was
\* given up carries its English text as the translation, the others their
\* Chinese.
C25_FallbackToEnglish ==
    vocab.pc = "returned" =>
        \A kind \in ListKinds :
           LET q == vocab.seq[kind]
           IN  /\ Len(vocab.result[kind]) = Len(q.items)
               /\ \A i \in DOMAIN q.items :
                     /\ vocab.result[kind][i].item = q.items[i]
                     /\ vocab.result[kind][i].translation =
                          IF q.trace[i].failed THEN TextOf(q.items[i])
                          ELSE Chinese(TextOf(q.items[i]))

\* C25 witness: the first noun is returned untranslated after three
\* failures and the noun behind it is returned translated
C25_Witness ==
    /\ vocab.pc = "returned"
    /\ Len(vocab.result.nouns) = 2
    /\ vocab.seq.nouns.trace[1].failed
    /\ vocab.result.nouns[1].translation = TextOf(vocab.result.nouns[1].item)
    /\ vocab.result.nouns[2].translation = Chinese(TextOf(vocab.result.nouns[2].item))

----------------------------------------------------------------------------
(* Properties of the rate limiter *)

\* requests of ip to endpoint let through in the window that ends at time t
AdmittedInWindow(ip, endpoint, t) ==
    LET times == rate.admitted[ip][endpoint]
    IN  Cardinality({ i \in DOMAIN times :
                        /\ times[i] > t - ConfigOf(endpoint).windowMs
                        /\ times[i] <= t })

\* C26 (as claimed): for every client key and rate limited endpoint, at
\* most maxRequests requests are let through in any window of windowMs (at
\* most 15 session starts in any 24 hours), after any sequence of requests
\* and cleanup runs.
C26_AtMostMaxPerWindow ==
    rate.pc = "serving" =>
        \A ip \in ClientIPs, endpoint \in LimitedEndpoints, t \in 0 .. MaxHours :
            AdmittedInWindow(ip, endpoint, t) <= ConfigOf(endpoint).maxRequests


\* C27 (as claimed): of the summary generation requests one IP makes within
\* 24 hours, every one after the 10th is answered with 429 and makes no
\* call of the summary model.
C27_EleventhSummaryRejected ==
    \A i \in DOMAIN genReqs :
        i > SUMMARY_GENERATION.maxRequests =>
            (genReqs[i].status = 429 /\ genReqs[i].llm = 0)

----------------------------------------------------------------------------
(* Properties of the translation client *)

\* C28: for a text of any length in either direction the token budget of
\* the request is at least 1024 and at most 2048, and a text one character
\* longer gets a budget that is not smaller.
C28_TokenBudgetBounded ==
    calc.pc = "request" =>
        /\ calc.max_tokens >= 1024
        /\ calc.max_tokens <= 2048
        /\ maxTokens(calc.textLength + 1, calc.sourceLang) >= calc.max_tokens

\* C28 witness: an English text long enough for a budget above the floor
\* and short enough for one below the cap
C28_Witness ==
    /\ calc.pc = "request"
    /\ calc.sourceLang = "en-US"
    /\ calc.max_tokens > 1024
    /\ calc.max_tokens < 2048

\* the translation of request r as translateText returned it
TranslationOf(r) ==
    translateText(SourceTextOf(transcribeAudio(reqs[r].asr)), SourceLang(reqs[r].kind),
                  TargetLang(reqs[r].kind), reqs[r].chat)

FailedTranscription(r) ==
    reqs[r].resp.asrCalls > 0 /\ ~transcribeAudio(reqs[r].asr).ok

FailedTranslation(r) ==
    reqs[r].resp.trCalls > 0 /\ ~TranslationOf(r).ok

\* C29: a turn submission asks the transcription provider at most once and
\* the translation provider at most once; when the transcription fails the
\* handler answers 500 after that one request and asks for no translation,
\* and when the translation fails it answers 500 after that one request.
C29_NoRetryOnLivePath ==
    \A r \in DOMAIN reqs :
        /\ reqs[r].resp.asrCalls <= 1
        /\ reqs[r].resp.trCalls <= 1
        /\ FailedTranscription(r) =>
              /\ reqs[r].resp.status = 500
              /\ reqs[r].resp.asrCalls = 1
              /\ reqs[r].resp.trCalls = 0
        /\ FailedTranslation(r) =>
              /\ reqs[r].resp.status = 500
              /\ reqs[r].resp.asrCalls = 1
              /\ reqs[r].resp.trCalls = 1

\* C29 witness: a submission whose transcription succeeded and whose
\* translation failed, answered with 500
C29_Witness ==
    \E r \in DOMAIN reqs :
        /\ FailedTranslation(r)
        /\ ~FailedTranscription(r)
        /\ reqs[r].resp.status = 500

----------------------------------------------------------------------------
(* Properties of the tagging client *)

\* the end of the object that opens at piece i, matching braces and taking
\* string literals as wholes, or 0 when it never closes
RECURSIVE BalancedEnd(_, _, _)
BalancedEnd(content, i, depth) ==
    IF i > Len(content) THEN 0
    ELSE LET d == IF content[i] = LBrace THEN depth + 1
                  ELSE IF content[i] = RBrace THEN depth - 1
                  ELSE depth
         IN  IF d = 0 THEN i ELSE BalancedEnd(content, i + 1, d)

\* the first balanced object of an answer, or <<>> when it has none
FirstBalancedObject(content) ==
    LET opens == { i \in DOMAIN content : content[i] = LBrace }
    IN  IF opens = {} THEN <<>>
        ELSE LET first == CHOOSE i \in opens : \A j \in opens : i <= j
                 last == BalancedEnd(content, first, 0)
             IN  IF last = 0 THEN <<>> ELSE SubSeq(content, first, last)

\* { "situation_tag": <string> }
IsTagObject(text) ==
    /\ Len(text) = 4
    /\ text[1] = LBrace
    /\ text[2] = TagKey
    /\ text[3] \in StringLiterals
    /\ text[4] = RBrace

\* C30: when the first balanced object of the model's answer is a valid tag
\* object, tagging succeeds with the tag of that object, whatever text
\* (braces included) follows it.
C30_TagFromFirstBalancedObject ==
    (calc.pc = "tagged" /\ IsTagObject(FirstBalancedObject(calc.content))) =>
        /\ calc.result.ok
        /\ calc.result.situationTag = FirstBalancedObject(calc.content)[3]

----------------------------------------------------------------------------
(* Properties of the vocabulary analysis *)

HardParseErrors == {NoJsonFound, ParseFailed}

\* an extraction layer gives a text that parses after the clean-up
LayerSucceeds(jsonStr) == jsonStr # <<>> /\ IsJson(Cleaned(jsonStr))

\* the answer to an extraction request holds no JSON object
NoJsonObject(x) ==
    \/ ~x.ok
    \/ x.content = <<>>
    \/ ~(ExtractedJson(x.content)[1] \in {LBrace, Entry} /\ IsJson(ExtractedJson(x.content)))

\* C31: when the analysis ends with a hard parse error, the brace-matched
\* substring of the model's answer does not parse, the first-to-last-brace
\* match of the answer does not parse either, and an extraction request was
\* sent whose answer held no JSON object.
C31_HardErrorAfterAllLayers ==
    (calc.pc = "failed" /\ calc.error \in HardParseErrors) =>
        /\ ~LayerSucceeds(extractJSON(calc.content))
        /\ ~LayerSucceeds(regexMatch(calc.content))
        /\ calc.extractionCalls >= 1
        /\ NoJsonObject(calc.extraction)

\* C31 witness: the answer had unbalanced braces, the regex match did not
\* parse, the extraction request came back with prose: a hard parse error
C31_Witness ==
    /\ calc.pc = "failed"
    /\ calc.error = ParseFailed
    /\ extractJSON(calc.content) = <<>>
    /\ regexMatch(calc.content) # <<>>
    /\ calc.extraction = [ok |-> TRUE, content |-> <<Prose>>]

\* the sequences of translations of the request, once they are started
Sequences == IF vocab.pc \in {"translating", "returned"}
             THEN { vocab.seq[kind] : kind \in ListKinds } ELSE {}

\* the items handed to the translations
ItemCount == IF vocab.pc \in {"translating", "returned"}
             THEN Len(vocab.seq["nouns"].items) + Len(vocab.seq["verbs"].items)
                  + Len(vocab.seq["phrases"].items)
             ELSE 0

CallsBounded ==
    /\ calc.analysisCalls <= 4
    /\ calc.extractionCalls <= 2
    /\ ItemCount <= 13
    /\ \A q \in Sequences :
          /\ q.cur.tries <= 3
          /\ \A i \in DOMAIN q.trace : q.trace[i].tries <= 3

RequestEnded == calc.pc = "failed" \/ vocab.pc = "returned"

----------------------------------------------------------------------------
(* Properties of the turn endpoints: validation *)

\* request r asked no provider and started no write
NothingDone(r) ==
    /\ reqs[r].resp.asrCalls = 0
    /\ reqs[r].resp.trCalls = 0
    /\ bg[r] = [insert |-> "none", update |-> "none", chain |-> "none"]
    /\ \A t \in turns : t.id # r

\* C33: a turn submitted (within the rate limit) for a session id that does
\* not exist is answered with 404, a turn submitted for an existing
\* session without an audio file is answered with 400, and in both cases
\* no provider is asked and nothing is written.
C33_InvalidSubmissionsRejected ==
    \A r \in DOMAIN reqs :
        reqs[r].resp.status # 429 =>
            /\ ~SessionExists(reqs[r].sid) =>
                  reqs[r].resp.status = 404 /\ NothingDone(r)
            /\ (reqs[r].audio = NoFile /\ reqs[r].resp.status # 404) =>
                  reqs[r].resp.status = 400 /\ NothingDone(r)

----------------------------------------------------------------------------
(* Properties of the stored key phrases *)

\* C34: for every stored summary (the result of a successful generation)
\* the key phrases stored for its (household, date) are exactly five rows,
\* their ranks are exactly 1 to 5, and each refers to that summary row.
C34_FivePhrasesRankedOneToFive ==
    \A x \in summaries :
        LET P == SummaryKeyRows(phrases, x.household_id, x.summary_date)
        IN  /\ Cardinality(P) = 5
            /\ { y.phrase_rank : y \in P } = 1 .. 5
            /\ \A y \in P : y.summary_id = x.id

\* generations i and j are for the same (household, date)
SameKey(i, j) ==
    /\ genReqs[i].householdId = genReqs[j].householdId
    /\ genReqs[i].targetDate = genReqs[j].targetDate

\* the stored phrases of the key of generation g are the phrases of g,
\* each at its rank, and the stored summary of the key is the one of g
StoredIs(g) ==
    LET h == genReqs[g].householdId
        d == genReqs[g].targetDate
        P == SummaryKeyRows(phrases, h, d)
    IN  /\ \A x \in SummaryKeyRows(summaries, h, d) : x.gen = g
        /\ \A y \in P : y.gen = g /\ genReqs[g].phrases[y.phrase_rank] = y.phrase_en
        /\ \A k \in DOMAIN genReqs[g].phrases : \E y \in P : y.phrase_en = genReqs[g].phrases[k]

\* C35: when two generations for the same (household, date) have both
\* written, in whatever order their statements ran, the stored phrases are
\* the phrases of one of the two and the stored summary is the summary of
\* that same generation.
C35_NoMixedPhraseSet ==
    \A i, j \in DOMAIN genReqs :
        (i # j /\ SameKey(i, j) /\ genReqs[i].status = 200 /\ genReqs[j].status = 200) =>
            StoredIs(i) \/ StoredIs(j)

\* C35 witness: two generations with different phrases for one date were
\* in flight together (the one requested first committed last), both
\* committed, and the phrases of the last to commit are stored
C35_Witness ==
    \E i, j \in DOMAIN genReqs :
        /\ i < j
        /\ SameKey(i, j)
        /\ genReqs[i].status = 200
        /\ genReqs[j].status = 200
        /\ genReqs[j].seq < genReqs[i].seq
        /\ PhraseSet(genReqs[i].phrases) \cap PhraseSet(genReqs[j].phrases) = {}
        /\ StoredIs(i)

----------------------------------------------------------------------------
(* The recorder's tag request and its reply submissions *)

\* the tag requests made for session sid
TagRequestsFor(sid) == { i \in DOMAIN tagReqs : tagReqs[i].sid = sid }

\* a stopPartnerRecording call made for session sid reaches
\* setState('completed')
Completes(sid) ==
    /\ client'.state = "completed"
    /\ \/ client.chain = "play-zh" /\ client'.chain = "none" /\ sid = client.chainSid
       \/ client.again = "play-zh" /\ client'.again = "none" /\ sid = client.againSid

\* the sessions of the stopPartnerRecording calls that are running
CallSids == {client.chainSid, client.againSid}

\* the tag route has answered a request
TagAnswered == \E i \in DOMAIN tagReqs : tagReqs[i].pc # "done" /\ tagReqs'[i].pc = "done"

\* C36: a stopPartnerRecording call that reaches completed fires the one
\* tag request of its session, a tag request is fired by nothing else, and
\* whatever the tag route answers leaves the recorder as it is.
C36_TaggedOncePerCompletedSession ==
    [][ /\ \A sid \in CallSids :
              Completes(sid) => /\ tagReqs' = Append(tagReqs, TagRequest(sid))
                                /\ TagRequestsFor(sid) = {}
        /\ Len(tagReqs') > Len(tagReqs) => \E sid \in CallSids : Completes(sid)
        /\ TagAnswered => client' = client ]_vars

\* the reply submissions the recorder made for session sid
ClientReplies(sid) ==
    { r \in DOMAIN reqs : reqs[r].byClient /\ reqs[r].kind = "reply" /\ reqs[r].sid = sid }

\* C37: the recorder posts the reply turn of a session at most once,
\* whether the timer or the button stopped the reply recording.
C37_ReplySubmittedAtMostOnce ==
    \A s \in sessions : Cardinality(ClientReplies(s.id)) <= 1

----------------------------------------------------------------------------
(* The timestamps the background writes leave *)

\* C38: in every session the stored first turn ended no later than the
\* stored reply turn, in whatever order the two background inserts ran, so
\* the order by ended_at is the order by turn_index.
C38_TurnsEndInIndexOrder ==
    \A t1, t2 \in turns :
        (t1.session_id = t2.session_id /\ t1.turn_index < t2.turn_index) =>
            t1.ended_at <= t2.ended_at

\* C39: a session whose ended_at is set keeps that ended_at through every
\* later step, whatever is submitted for it afterwards.
C39_EndedAtSetOnce ==
    [][ \A s \in sessions :
            s.ended_at # Null =>
                \E s2 \in sessions' : s2.id = s.id /\ s2.ended_at = s.ended_at ]_vars

----------------------------------------------------------------------------
(* The microphone after a failure *)

\* the recorders whose stream has live tracks
OpenStreams(c) ==
    (IF c.ref.open THEN 1 ELSE 0) + c.lost.mom + c.lost.partner + c.lost.unstarted

\* C40: while the recorder is idle and shows a failure, no recorder made
\* for the session holds an open microphone stream; a reply recorder that
\* was made during a playback that failed is among those released.
C40_NoOpenStreamAfterFailure ==
    (client.state = "idle" /\ client.error # "") => OpenStreams(client) = 0

====
